---- MODULE Spec2Model ----
(***************************************************************************)
(* Data-preparation pipeline of the conflict-deaths chart bundles:         *)
(* column detection, row normalisation, entity classification and the      *)
(* load handler that dispatches to the chart renderers.                    *)
(*                                                                         *)
(* JavaScript strings are sequences of one-character strings, so that      *)
(* toLowerCase, the whitespace regexp, includes and the ISO-3 regexp are   *)
(* computed character by character.  JavaScript values are records tagged  *)
(* with their typeof (field t); sequence positions are 1-based, and the    *)
(* index 0 stands for findIndex's -1.                                      *)
(***************************************************************************)
EXTENDS Integers, Sequences, FiniteSets, TLC

(***************************************************************************)
(* JavaScript values                                                       *)
(***************************************************************************)
Undefined == [t |-> "undefined"]
Null      == [t |-> "null"]
NaN       == [t |-> "number", nan |-> TRUE]
Num(n)    == [t |-> "number", n |-> n]
Bool(b)   == [t |-> "boolean", b |-> b]
Str(s)    == [t |-> "string", s |-> s]

IsStr(v) == v.t = "string"
IsNum(v) == v.t = "number" /\ "n" \in DOMAIN v
IsNaN(v) == v.t = "number" /\ "nan" \in DOMAIN v

\* ToBoolean: the values that `!x` and `x || y` treat as false
Falsy(v) ==
    \/ v.t \in {"undefined", "null"}
    \/ IsNaN(v)
    \/ IsNum(v) /\ v.n = 0
    \/ v.t = "boolean" /\ ~v.b
    \/ IsStr(v) /\ v.s = <<>>

\* a || b
OrElse(a, b) == IF Falsy(a) THEN b ELSE a

(***************************************************************************)
(* Characters and strings                                                  *)
(***************************************************************************)
UpperChars ==
    <<"A", "B", "C", "D", "E", "F", "G", "H", "I", "J", "K", "L", "M",
      "N", "O", "P", "Q", "R", "S", "T", "U", "V", "W", "X", "Y", "Z">>
LowerChars ==
    <<"a", "b", "c", "d", "e", "f", "g", "h", "i", "j", "k", "l", "m",
      "n", "o", "p", "q", "r", "s", "t", "u", "v", "w", "x", "y", "z">>
DigitChars == <<"0", "1", "2", "3", "4", "5", "6", "7", "8", "9">>

Range(f) == {f[i] : i \in DOMAIN f}

\* the class \s of the regexps, restricted to the characters of the model
IsSpace(c) == c \in {" ", "\t"}

PosIn(c, chars) == CHOOSE i \in DOMAIN chars : chars[i] = c

\* [A-Z], [a-z] and the case mappings of the ASCII letters
UpperSet == Range(UpperChars)
LowerSet == Range(LowerChars)
LowerOf  == [c \in UpperSet |-> LowerChars[PosIn(c, UpperChars)]]
UpperOf  == [c \in LowerSet |-> UpperChars[PosIn(c, LowerChars)]]

toLowerChar(c) == IF c \in UpperSet THEN LowerOf[c] ELSE c
toUpperChar(c) == IF c \in LowerSet THEN UpperOf[c] ELSE c

\* String.prototype.toLowerCase / toUpperCase
toLowerCase(s) == [i \in DOMAIN s |-> toLowerChar(s[i])]
toUpperCase(s) == [i \in DOMAIN s |-> toUpperChar(s[i])]

\* s.replace(/\s+/g, " "): every maximal run of whitespace becomes one space
RECURSIVE collapseSpaces(_)
collapseSpaces(s) ==
    IF s = <<>> THEN <<>>
    ELSE IF IsSpace(Head(s))
         THEN IF Len(s) > 1 /\ IsSpace(s[2])
              THEN collapseSpaces(Tail(s))
              ELSE <<" ">> \o collapseSpaces(Tail(s))
         ELSE <<Head(s)>> \o collapseSpaces(Tail(s))

\* String.prototype.trim
RECURSIVE trimStart(_)
trimStart(s) == IF s # <<>> /\ IsSpace(Head(s)) THEN trimStart(Tail(s)) ELSE s
RECURSIVE trimEnd(_)
trimEnd(s) ==
    IF s # <<>> /\ IsSpace(s[Len(s)]) THEN trimEnd(SubSeq(s, 1, Len(s) - 1)) ELSE s
trim(s) == trimEnd(trimStart(s))

\* String.prototype.includes
includes(s, nd) ==
    \E i \in 0..(Len(s) - Len(nd)) : \A j \in 1..Len(nd) : s[i + j] = nd[j]

\* Array.prototype.findIndex over a sequence, 0 when no element satisfies P
MinOrZero(S) == IF S = {} THEN 0 ELSE CHOOSE i \in S : \A j \in S : i <= j
findIndex(seq, P(_)) == MinOrZero({i \in DOMAIN seq : P(seq[i])})

(***************************************************************************)
(* String literals of the source                                           *)
(***************************************************************************)
\* 'World'
S_World ==
    <<"W", "o", "r", "l", "d">>
\* 'Entity'
S_Entity ==
    <<"E", "n", "t", "i", "t", "y">>
\* 'Code'
S_Code ==
    <<"C", "o", "d", "e">>
\* 'Year'
S_Year ==
    <<"Y", "e", "a", "r">>
\* 'null'
S_null ==
    <<"n", "u", "l", "l">>
\* 'undefined'
S_undefined ==
    <<"u", "n", "d", "e", "f", "i", "n", "e", "d">>
\* 'entity'
K_entity ==
    <<"e", "n", "t", "i", "t", "y">>
\* 'code'
K_code ==
    <<"c", "o", "d", "e">>
\* 'year'
K_year ==
    <<"y", "e", "a", "r">>
\* 'conflict type: interstate'
K_ct_interstate ==
    <<"c", "o", "n", "f", "l", "i", "c", "t", " ", "t", "y", "p", "e", ":", " ", "i", "n", "t", "e", "r", "s", "t", "a", "t", "e">>
\* 'conflict type: intrastate'
K_ct_intrastate ==
    <<"c", "o", "n", "f", "l", "i", "c", "t", " ", "t", "y", "p", "e", ":", " ", "i", "n", "t", "r", "a", "s", "t", "a", "t", "e">>
\* 'conflict type: extrasystemic'
K_ct_extrasystemic ==
    <<"c", "o", "n", "f", "l", "i", "c", "t", " ", "t", "y", "p", "e", ":", " ", "e", "x", "t", "r", "a", "s", "y", "s", "t", "e", "m", "i", "c">>
\* 'conflict type: non-state'
K_ct_nonstate ==
    <<"c", "o", "n", "f", "l", "i", "c", "t", " ", "t", "y", "p", "e", ":", " ", "n", "o", "n", "-", "s", "t", "a", "t", "e">>
\* 'conflict type: one-sided'
K_ct_onesided ==
    <<"c", "o", "n", "f", "l", "i", "c", "t", " ", "t", "y", "p", "e", ":", " ", "o", "n", "e", "-", "s", "i", "d", "e", "d">>
\* ' interstate'
K_sp_interstate ==
    <<" ", "i", "n", "t", "e", "r", "s", "t", "a", "t", "e">>
\* ' intrastate'
K_sp_intrastate ==
    <<" ", "i", "n", "t", "r", "a", "s", "t", "a", "t", "e">>
\* ' extrasystemic'
K_sp_extrasystemic ==
    <<" ", "e", "x", "t", "r", "a", "s", "y", "s", "t", "e", "m", "i", "c">>
\* ' non state'
K_sp_non_state ==
    <<" ", "n", "o", "n", " ", "s", "t", "a", "t", "e">>
\* ' non-state conflict'
K_sp_nonstate_conflict ==
    <<" ", "n", "o", "n", "-", "s", "t", "a", "t", "e", " ", "c", "o", "n", "f", "l", "i", "c", "t">>
\* ' one-sided violence'
K_sp_onesided_violence ==
    <<" ", "o", "n", "e", "-", "s", "i", "d", "e", "d", " ", "v", "i", "o", "l", "e", "n", "c", "e">>
\* ' one sided'
K_sp_one_sided ==
    <<" ", "o", "n", "e", " ", "s", "i", "d", "e", "d">>

(***************************************************************************)
(* Raw rows: one object per CSV row, keyed by the header strings           *)
(***************************************************************************)
\* the property key a value is converted to by d[key]
ToPropertyKey(key) ==
    CASE IsStr(key)            -> key.s
      [] key.t = "null"        -> S_null
      [] key.t = "undefined"   -> S_undefined

\* d[key]: the cell under the header named by key, undefined when d has none
valueAt(vals, i) == IF i = 0 THEN Undefined ELSE vals[i]
Get(d, key) == valueAt(d.vals, findIndex(d.keys, LAMBDA h : h = ToPropertyKey(key)))

\* Object.keys(raw[0])
ObjectKeys(d) == d.keys

RECURSIVE DigitsValue(_)
DigitsValue(s) ==
    IF s = <<>> THEN 0
    ELSE 10 * DigitsValue(SubSeq(s, 1, Len(s) - 1)) + (PosIn(s[Len(s)], DigitChars) - 1)

IsDigits(s) == s # <<>> /\ \A i \in DOMAIN s : s[i] \in Range(DigitChars)

\* a conversion that reads the leading digits and ignores what follows them
StringToNumberPrefix(s) ==
    LET u == trim(s)
        k == Cardinality({i \in DOMAIN u : \A j \in 1..i : u[j] \in Range(DigitChars)})
    IN  IF k = 0 THEN NaN ELSE Num(DigitsValue(SubSeq(u, 1, k)))

\* the number a string converts to: decimal integers with an optional sign,
\* 0 for blank strings, NaN for any other text
StringToNumber(s) ==
    LET u == trim(s) IN
    IF u = <<>> THEN Num(0)
    ELSE IF IsDigits(u) THEN Num(DigitsValue(u))
    ELSE IF Head(u) = "-" /\ IsDigits(Tail(u)) THEN Num(0 - DigitsValue(Tail(u)))
    ELSE IF Head(u) = "+" /\ IsDigits(Tail(u)) THEN Num(DigitsValue(Tail(u)))
    ELSE NaN

\* unary plus
ToNumber(v) ==
    CASE v.t = "undefined" -> NaN
      [] v.t = "null"      -> Num(0)
      [] v.t = "boolean"   -> IF v.b THEN Num(1) ELSE Num(0)
      [] v.t = "number"    -> v
      [] v.t = "string"    -> StringToNumber(v.s)

\* +x || 0, as a plain integer (the result is never NaN)
NumberOrZero(v) == OrElse(ToNumber(v), Num(0)).n

(***************************************************************************)
(* Configuration                                                           *)
(***************************************************************************)
SNAPSHOT_YEAR == 2023

TYPE_ORDER == <<"Interstate", "Intrastate", "Extrasystemic", "Non-state", "One-sided">>

ALL_VIZ_SELECTORS ==
    <<"#bar-top10", "#grouped", "#heatmap", "#stack100", "#waffle",
      "#histogram", "#violin", "#boxplot", "#timeseries", "#map-choropleth",
      "#map-symbol", "#map-contour", "#sankey", "#network">>

\* the five containers of the first bundle
FIRST_SELECTORS == <<"#bar-top10", "#grouped", "#heatmap", "#stack100", "#waffle">>

(***************************************************************************)
(* isISO3                                                                  *)
(***************************************************************************)
\* the regexp without its anchors: three upper-case letters anywhere in code
isISO3Unanchored(code) ==
    /\ IsStr(code)
    /\ \E i \in 0..(Len(code.s) - 3) : \A j \in 1..3 : code.s[i + j] \in UpperSet

\* typeof code === "string" && /^[A-Z]{3}$/.test(code)
isISO3(code) ==
    /\ IsStr(code)
    /\ Len(code.s) = 3
    /\ \A i \in 1..3 : code.s[i] \in UpperSet

(***************************************************************************)
(* detectColumns                                                           *)
(***************************************************************************)
\* main bundle: norm
norm(s) == trim(collapseSpaces(toLowerCase(s)))

\* main bundle: pick(...needles) over H = headers.map(h => ({raw, n}))
\* i >= 0 ? H[i].raw : null
rawAt(H, i) == IF i >= 1 THEN Str(H[i].raw) ELSE Null
\* pick with the needles trimmed before they are matched
pickTrimmed(H, needles) ==
    rawAt(H, findIndex(H, LAMBDA h : \E k \in DOMAIN needles : includes(h.n, trim(needles[k]))))

pick(H, needles) ==
    rawAt(H, findIndex(H, LAMBDA h : \E k \in DOMAIN needles : includes(h.n, needles[k])))

\* main bundle: the returned object, given H
detectIn(H) ==
    [entity        |-> OrElse(pick(H, <<K_entity>>), Str(S_Entity)),
     code          |-> OrElse(pick(H, <<K_code>>), Str(S_Code)),
     year          |-> OrElse(pick(H, <<K_year>>), Str(S_Year)),
     interstate    |-> pick(H, <<K_ct_interstate, K_sp_interstate>>),
     intrastate    |-> pick(H, <<K_ct_intrastate, K_sp_intrastate>>),
     extrasystemic |-> pick(H, <<K_ct_extrasystemic, K_sp_extrasystemic>>),
     nonstate      |-> pick(H, <<K_ct_nonstate, K_sp_non_state, K_sp_nonstate_conflict>>),
     onesided      |-> pick(H, <<K_ct_onesided, K_sp_onesided_violence, K_sp_one_sided>>)]

\* main bundle
detectColumns(headers) ==
    detectIn([i \in DOMAIN headers |-> [raw |-> headers[i], n |-> norm(headers[i])]])

\* first bundle and the smaller variants: find(kw); headers[-1] is undefined
headerAt(headers, i) == IF i >= 1 THEN Str(headers[i]) ELSE Undefined
find(headers, low, kw) ==
    headerAt(headers, findIndex(low, LAMBDA x : includes(x, kw)))

\* first bundle and the smaller variants: the returned object, given low
detectFirstIn(headers, low) ==
    [entity        |-> OrElse(find(headers, low, K_entity), Str(S_Entity)),
     code          |-> OrElse(find(headers, low, K_code), Str(S_Code)),
     year          |-> OrElse(find(headers, low, K_year), Str(S_Year)),
     interstate    |-> find(headers, low, K_ct_interstate),
     intrastate    |-> find(headers, low, K_ct_intrastate),
     extrasystemic |-> find(headers, low, K_ct_extrasystemic),
     nonstate      |-> find(headers, low, K_ct_nonstate),
     onesided      |-> find(headers, low, K_ct_onesided)]

\* first bundle and the smaller variants
detectColumnsFirst(headers) ==
    detectFirstIn(headers, [i \in DOMAIN headers |-> toLowerCase(headers[i])])

(***************************************************************************)
(* mapRow                                                                  *)
(***************************************************************************)
\* the fields every variant reads from the raw row
baseRecord(d, C) ==
    ("entity" :> Get(d, C.entity)) @@
    ("code" :> Get(d, C.code)) @@
    ("year" :> ToNumber(Get(d, C.year))) @@
    ("Interstate" :> NumberOrZero(Get(d, C.interstate))) @@
    ("Intrastate" :> NumberOrZero(Get(d, C.intrastate))) @@
    ("Extrasystemic" :> NumberOrZero(Get(d, C.extrasystemic))) @@
    ("Non-state" :> NumberOrZero(Get(d, C.nonstate))) @@
    ("One-sided" :> NumberOrZero(Get(d, C.onesided)))

\* a reduce that stops one key short
RECURSIVE reduceTotalShort(_, _, _)
reduceTotalShort(r, keys, acc) ==
    IF Len(keys) <= 1 THEN acc
    ELSE reduceTotalShort(r, Tail(keys), acc + (IF r[Head(keys)] = 0 THEN 0 ELSE r[Head(keys)]))

\* TYPE_ORDER.reduce((acc, k) => acc + (r[k] || 0), 0)
RECURSIVE reduceTotal(_, _, _)
reduceTotal(r, keys, acc) ==
    IF keys = <<>> THEN acc
    ELSE reduceTotal(r, Tail(keys), acc + (IF r[Head(keys)] = 0 THEN 0 ELSE r[Head(keys)]))

\* main bundle: r.total and r.iso3 are set on the record r
withTotalAndIso3(r) == r @@ ("total" :> reduceTotal(r, TYPE_ORDER, 0)) @@ ("iso3" :> r["code"])
mapRow(d, C) == withTotalAndIso3(baseRecord(d, C))

\* first bundle and the smaller variants: the total is the written-out sum
withTotal(r) ==
    r @@ ("total" :> r["Interstate"] + r["Intrastate"] + r["Extrasystemic"]
                     + r["Non-state"] + r["One-sided"])
mapRowFirst(d, C) == withTotal(baseRecord(d, C))

\* second loader of part_003: the extrasystemic column is read only when detected
mapRowGuarded(d, C) ==
    withTotal([baseRecord(d, C) EXCEPT !["Extrasystemic"] =
                  IF Falsy(C.extrasystemic) THEN 0
                  ELSE NumberOrZero(Get(d, C.extrasystemic))])

(***************************************************************************)
(* Inputs: the CSV files the loader can receive                            *)
(*                                                                         *)
(* A header row is a sequence of columns [name, kind]; kind is what the    *)
(* column holds in the file and only decides which cells the rows carry    *)
(* under it: the program sees the names alone.                             *)
(***************************************************************************)
MaxRows == 1

\* 'Conflict type: Interstate deaths'
H_ctInterstate ==
    <<"C", "o", "n", "f", "l", "i", "c", "t", " ", "t", "y", "p", "e", ":", " ", "I", "n", "t", "e", "r", "s", "t", "a", "t", "e", " ", "d", "e", "a", "t", "h", "s">>
\* 'Conflict type: Intrastate deaths'
H_ctIntrastate ==
    <<"C", "o", "n", "f", "l", "i", "c", "t", " ", "t", "y", "p", "e", ":", " ", "I", "n", "t", "r", "a", "s", "t", "a", "t", "e", " ", "d", "e", "a", "t", "h", "s">>
\* 'Conflict type: Extrasystemic deaths'
H_ctExtrasystemic ==
    <<"C", "o", "n", "f", "l", "i", "c", "t", " ", "t", "y", "p", "e", ":", " ", "E", "x", "t", "r", "a", "s", "y", "s", "t", "e", "m", "i", "c", " ", "d", "e", "a", "t", "h", "s">>
\* 'Conflict type: Non-state deaths'
H_ctNonState ==
    <<"C", "o", "n", "f", "l", "i", "c", "t", " ", "t", "y", "p", "e", ":", " ", "N", "o", "n", "-", "s", "t", "a", "t", "e", " ", "d", "e", "a", "t", "h", "s">>
\* 'Conflict type: One-sided deaths'
H_ctOneSided ==
    <<"C", "o", "n", "f", "l", "i", "c", "t", " ", "t", "y", "p", "e", ":", " ", "O", "n", "e", "-", "s", "i", "d", "e", "d", " ", "d", "e", "a", "t", "h", "s">>
\* 'Interstate'
H_Interstate ==
    <<"I", "n", "t", "e", "r", "s", "t", "a", "t", "e">>
\* 'Intrastate'
H_Intrastate ==
    <<"I", "n", "t", "r", "a", "s", "t", "a", "t", "e">>
\* 'Non-state deaths'
H_NonStateDeaths ==
    <<"N", "o", "n", "-", "s", "t", "a", "t", "e", " ", "d", "e", "a", "t", "h", "s">>
\* 'One-sided'
H_OneSided ==
    <<"O", "n", "e", "-", "s", "i", "d", "e", "d">>
\* 'Deaths in intrastate conflicts'
H_inIntrastate ==
    <<"D", "e", "a", "t", "h", "s", " ", "i", "n", " ", "i", "n", "t", "r", "a", "s", "t", "a", "t", "e", " ", "c", "o", "n", "f", "l", "i", "c", "t", "s">>
\* 'Deaths in non-state conflicts'
H_inNonState ==
    <<"D", "e", "a", "t", "h", "s", " ", "i", "n", " ", "n", "o", "n", "-", "s", "t", "a", "t", "e", " ", "c", "o", "n", "f", "l", "i", "c", "t", "s">>
\* 'Deaths from one-sided violence'
H_inOneSided ==
    <<"D", "e", "a", "t", "h", "s", " ", "f", "r", "o", "m", " ", "o", "n", "e", "-", "s", "i", "d", "e", "d", " ", "v", "i", "o", "l", "e", "n", "c", "e">>
\* 'Country'
H_Country ==
    <<"C", "o", "u", "n", "t", "r", "y">>
\* 'ISO'
H_ISO ==
    <<"I", "S", "O">>
\* 'Date'
H_Date ==
    <<"D", "a", "t", "e">>
\* 'Ukraine'
V_Ukraine ==
    <<"U", "k", "r", "a", "i", "n", "e">>
\* 'Europe'
V_Europe ==
    <<"E", "u", "r", "o", "p", "e">>
\* 'UKR'
V_UKR ==
    <<"U", "K", "R">>
\* 'WLD'
V_WLD ==
    <<"W", "L", "D">>
\* 'OWID_WRL'
V_OWID_WRL ==
    <<"O", "W", "I", "D", "_", "W", "R", "L">>
\* 'ukr'
V_ukr ==
    <<"u", "k", "r">>
\* 'UKRA'
V_UKRA ==
    <<"U", "K", "R", "A">>
\* 'UK1'
V_UK1 ==
    <<"U", "K", "1">>
\* 'N/A'
V_NA ==
    <<"N", "/", "A">>

\* '2023*'
V_2023star ==
    <<"2", "0", "2", "3", "*">>

Col(name, kind) == [name |-> name, kind |-> kind]

\* the header row of the spec's example: no extrasystemic column
HR_Spec ==
    <<Col(S_Entity, "entity"), Col(S_Code, "code"), Col(S_Year, "year"),
      Col(H_ctInterstate, "Interstate"), Col(H_ctIntrastate, "Intrastate"),
      Col(H_ctNonState, "Non-state"), Col(H_ctOneSided, "One-sided")>>

\* all five conflict types
HR_Full ==
    <<Col(S_Entity, "entity"), Col(S_Code, "code"), Col(S_Year, "year"),
      Col(H_ctInterstate, "Interstate"), Col(H_ctIntrastate, "Intrastate"),
      Col(H_ctExtrasystemic, "Extrasystemic"),
      Col(H_ctNonState, "Non-state"), Col(H_ctOneSided, "One-sided")>>

\* bare type names, without the "conflict type: " prefix
HR_Bare ==
    <<Col(S_Entity, "entity"), Col(S_Code, "code"), Col(S_Year, "year"),
      Col(H_Interstate, "Interstate"), Col(H_Intrastate, "Intrastate"),
      Col(H_NonStateDeaths, "Non-state"), Col(H_OneSided, "One-sided")>>

\* type names inside a phrase
HR_Phrase ==
    <<Col(S_Entity, "entity"), Col(S_Code, "code"), Col(S_Year, "year"),
      Col(H_inIntrastate, "Intrastate"), Col(H_inNonState, "Non-state"),
      Col(H_inOneSided, "One-sided")>>

\* no header names the entity, the code or the year
HR_NoIdent ==
    <<Col(H_Country, "entity"), Col(H_ISO, "code"), Col(H_Date, "year"),
      Col(H_ctIntrastate, "Intrastate"), Col(H_ctNonState, "Non-state"),
      Col(H_ctOneSided, "One-sided")>>

\* no intrastate column
HR_NoIntra ==
    <<Col(S_Entity, "entity"), Col(S_Code, "code"), Col(S_Year, "year"),
      Col(H_ctInterstate, "Interstate"),
      Col(H_ctNonState, "Non-state"), Col(H_ctOneSided, "One-sided")>>

\* no extrasystemic column, and two columns named "null" and "undefined"
HR_Null ==
    <<Col(S_Entity, "entity"), Col(S_Code, "code"), Col(S_Year, "year"),
      Col(H_ctInterstate, "Interstate"), Col(H_ctIntrastate, "Intrastate"),
      Col(H_ctNonState, "Non-state"), Col(H_ctOneSided, "One-sided"),
      Col(S_null, "other"), Col(S_undefined, "other")>>

\* a column of another measure whose name holds " intrastate", before the
\* intrastate column of the spec's example
HR_Mixed ==
    <<Col(S_Entity, "entity"), Col(S_Code, "code"), Col(S_Year, "year"),
      Col(H_ctInterstate, "Interstate"), Col(H_inIntrastate, "other"),
      Col(H_ctIntrastate, "Intrastate"),
      Col(H_ctNonState, "Non-state"), Col(H_ctOneSided, "One-sided")>>

\* a header row with every name in upper case
UpperRow(hr) == [i \in DOMAIN hr |-> Col(toUpperCase(hr[i].name), hr[i].kind)]

\* a string with every whitespace character doubled into space-tab, and
\* whitespace added at both ends
RECURSIVE widen(_)
widen(s) ==
    IF s = <<>> THEN <<>>
    ELSE IF IsSpace(Head(s)) THEN <<" ", "\t">> \o widen(Tail(s))
    ELSE <<Head(s)>> \o widen(Tail(s))

WideRow(hr) ==
    [i \in DOMAIN hr |-> Col(<<" ">> \o widen(hr[i].name) \o <<"\t", " ">>, hr[i].kind)]

HeaderRows ==
    {HR_Spec, HR_Full, HR_Bare, HR_Phrase, HR_NoIdent, HR_NoIntra, HR_Null, HR_Mixed,
     UpperRow(HR_Spec), WideRow(HR_Spec), WideRow(HR_Phrase)}

Names(hr) == [i \in DOMAIN hr |-> hr[i].name]

\* what one CSV row says: who, when, and the five counts
Plain ==
    [entity |-> Str(V_Ukraine), code |-> Str(V_UKR), year |-> Num(SNAPSHOT_YEAR),
     counts |-> [k \in 1..5 |-> Num(k)], other |-> Num(7)]

\* (entity, code) pairs of countries, of the World and of regions, with
\* well-formed and malformed codes
Identities ==
    {<<Str(S_World), Str(V_OWID_WRL)>>, <<Str(S_World), Str(V_WLD)>>,
     <<Str(S_World), Null>>, <<Str(V_Europe), Null>>,
     <<Str(V_Ukraine), Str(V_ukr)>>, <<Str(V_Ukraine), Str(V_UKRA)>>,
     <<Str(V_Ukraine), Str(V_UK1)>>, <<Str(V_Ukraine), Num(804)>>,
     <<Str(V_Ukraine), Null>>}

\* the typed values d3.autoType leaves in a cell that is not a plain count
OddCells == {Null, NaN, Bool(TRUE), Bool(FALSE), Str(V_NA), Num(0 - 1)}

\* the count columns that carry an odd cell: the first and the last type
OddColumns == {1, 5}

\* the rows of the model: the plain row, or the plain row with another
\* identity, another year, or one odd count cell
Contents ==
    {Plain}
    \cup {[Plain EXCEPT !.entity = id[1], !.code = id[2]] : id \in Identities}
    \cup {[Plain EXCEPT !.year = y] : y \in {Num(SNAPSHOT_YEAR - 1), Str(V_NA), Str(V_2023star)}}
    \cup {[Plain EXCEPT !.counts[k] = v] : k \in OddColumns, v \in OddCells}

TypeIndex(kind) == CHOOSE k \in 1..5 : TYPE_ORDER[k] = kind

\* the cell a row carries under a column
Cell(c, kind) ==
    CASE kind = "entity" -> c.entity
      [] kind = "code"   -> c.code
      [] kind = "year"   -> c.year
      [] kind = "other"  -> c.other
      [] OTHER           -> c.counts[TypeIndex(kind)]

\* the object d3.csv builds for one row
RowObject(hr, c) ==
    [keys |-> Names(hr), vals |-> [i \in DOMAIN hr |-> Cell(c, hr[i].kind)]]

\* the parsed files: any header row with 0..MaxRows rows
RECURSIVE SeqsUpTo(_, _)
SeqsUpTo(S, n) ==
    IF n = 0 THEN {<<>>}
    ELSE LET shorter == SeqsUpTo(S, n - 1)
         IN  shorter \cup {Append(q, x) : q \in {p \in shorter : Len(p) = n - 1}, x \in S}

RawFiles ==
    {[i \in DOMAIN cs |-> RowObject(hr, cs[i])] : hr \in HeaderRows, cs \in SeqsUpTo(Contents, MaxRows)}

(***************************************************************************)
(* Pages and containers                                                    *)
(***************************************************************************)
Bundles == {"main", "first", "part_000", "part_002", "part_003", "part_003_top10"}

\* container content: the child elements of the container, in document order
Empty       == <<>>
\* <div class="alert">msg</div>
AlertDiv(msg) == [kind |-> "alert", msg |-> msg]
\* a container that shows the alert and nothing else
Alert(msg)  == <<AlertDiv(msg)>>
\* whatever the renderer fn drew into its container
Output(fn)  == <<[kind |-> "output", by |-> fn]>>

MSG_MISSING       == "Could not detect required columns in the CSV."
MSG_FAILED        == "Failed to load data. Expected CSV and GeoJSON in /data."
MSG_MISSING_FIRST == "Could not detect needed columns in the CSV. Check header names."
MSG_FAILED_FIRST  == "Failed to load the CSV."
MSG_FAILED_FIRST_TOP10 ==
    "Failed to load the CSV. Ensure the file exists at data/conflict_deaths_by_type.csv"
MSG_NO_WORLD_YEAR == "No World aggregate for 2023."

PART_000_SELECTORS == <<"#bar-top10", "#grouped", "#heatmap">>
PART_002_SELECTORS == <<"#bar-top10-2023", "#grouped-2023">>
TOP10_MOUNT        == "#bar-top10-2023"

\* a clearing that selects every chart container of the page
htmlAll(cs, sel) == IF sel \in DOMAIN cs THEN [s \in DOMAIN cs |-> <<>>] ELSE cs

\* d3.select(sel).html(""): an empty selection when the page has no such
\* container, and then nothing is written
html(cs, sel) == IF sel \in DOMAIN cs THEN [cs EXCEPT ![sel] = <<>>] ELSE cs

\* d3.select(sel).append(...)
append(cs, sel, el) ==
    IF sel \in DOMAIN cs THEN [cs EXCEPT ![sel] = Append(@, el)] ELSE cs

\* an alertIn that appends the message without clearing the box
alertInAppending(cs, sel, msg) == append(cs, sel, AlertDiv(msg))

\* alertIn(sel, msg): box.html("").append("div").attr("class", "alert").text(msg)
alertIn(cs, sel, msg) == append(html(cs, sel), sel, AlertDiv(msg))

\* a forEach that stops after the first selector
alertFirstOnly(cs, sels, msg) == alertIn(cs, Head(sels), msg)

\* sels.forEach(sel => alertIn(sel, msg))
RECURSIVE alertAll(_, _, _)
alertAll(cs, sels, msg) ==
    IF sels = <<>> THEN cs
    ELSE alertAll(alertIn(cs, Head(sels), msg), Tail(sels), msg)

(***************************************************************************)
(* Renderers of the main bundle                                            *)
(*                                                                         *)
(* A renderer works on a page [cs, labels, threw]: the content of the      *)
(* chart containers, the text of the year labels (0 when blank), and       *)
(* whether the call raised an error.  The marks of a chart are the data    *)
(* the renderer binds to them.                                             *)
(***************************************************************************)
Page(cs, labels) == [cs |-> cs, labels |-> labels, threw |-> FALSE]

Svg(fn, marks) == [kind |-> "svg", by |-> fn, marks |-> marks]
Legend         == [kind |-> "legend"]
Caption(fn)    == [kind |-> "caption", by |-> fn]
Button         == [kind |-> "button"]

\* a message that carries the year: `${text}${year}.`
YearMsg(text, year) == text \o ToString(year) \o "."

\* one append per element
RECURSIVE appendAll(_, _, _)
appendAll(cs, sel, els) ==
    IF els = <<>> THEN cs ELSE appendAll(append(cs, sel, Head(els)), sel, Tail(els))

\* a draw that appends to what the container holds
drawnAppending(pg, sel, els) == [pg EXCEPT !.cs = appendAll(@, sel, els)]

\* d3.select(sel).html("").append("svg"), followed by the appends of the
\* legend, the caption or the button
drawn(pg, sel, els) == [pg EXCEPT !.cs = appendAll(html(@, sel), sel, els)]

alert(pg, sel, msg) == [pg EXCEPT !.cs = alertIn(@, sel, msg)]

\* a === b on numbers: NaN equals nothing
StrictEquals(a, b) == a = b /\ ~IsNaN(a)

\* d.year === year
inYear(d, year) == StrictEquals(d["year"], Num(year))

\* 'Palestine'
V_Palestine ==
    <<"P", "a", "l", "e", "s", "t", "i", "n", "e">>
\* 'Sudan'
V_Sudan ==
    <<"S", "u", "d", "a", "n">>
\* 'Mexico'
V_Mexico ==
    <<"M", "e", "x", "i", "c", "o">>
\* 'Burkina Faso'
V_BurkinaFaso ==
    <<"B", "u", "r", "k", "i", "n", "a", " ", "F", "a", "s", "o">>

FOCUS_COUNTRIES ==
    <<Str(V_Ukraine), Str(V_Palestine), Str(V_Sudan), Str(V_Mexico), Str(V_BurkinaFaso)>>

\* a sort by ascending total
insertAscending(sorted, x) ==
    LET k == Cardinality({i \in DOMAIN sorted : sorted[i]["total"] <= x["total"]})
    IN  SubSeq(sorted, 1, k) \o <<x>> \o SubSeq(sorted, k + 1, Len(sorted))

\* where the stable sort by d3.descending(a.total, b.total) puts x among
\* the records already sorted: after every record with a total >= x.total
insertDescending(sorted, x) ==
    LET k == Cardinality({i \in DOMAIN sorted : sorted[i]["total"] >= x["total"]})
    IN  SubSeq(sorted, 1, k) \o <<x>> \o SubSeq(sorted, k + 1, Len(sorted))

\* rows.sort((a, b) => d3.descending(a.total, b.total))
RECURSIVE sortDescending(_)
sortDescending(seq) ==
    IF seq = <<>> THEN <<>>
    ELSE insertDescending(sortDescending(SubSeq(seq, 1, Len(seq) - 1)), seq[Len(seq)])

\* seq.slice(0, n)
slice(seq, n) == SubSeq(seq, 1, IF n < Len(seq) THEN n ELSE Len(seq))

\* data.filter(d => d.year === year && d.total > 0)
positiveInYear(data, year) == SelectSeq(data, LAMBDA d : inYear(d, year) /\ d["total"] > 0)

\* data.filter(d => d.year === year && isISO3(d.code) && d.total > 0)
positiveIsoInYear(data, year) ==
    SelectSeq(data, LAMBDA d : inYear(d, year) /\ isISO3(d["code"]) /\ d["total"] > 0)

\* dataRows.filter(d => d.year === year && isISO3(d.code))
isoInYear(data, year) == SelectSeq(data, LAMBDA d : inYear(d, year) /\ isISO3(d["code"]))

\* topCountriesByTotal(data, year, N)
topCountriesByTotal(data, year, N) == slice(sortDescending(positiveInYear(data, year)), N)

\* 1) drawTop10Bar
top10Of(rows) == slice(sortDescending(rows), 10)
drawTop10BarRows(pg, sel, rows, year) ==
    IF rows = <<>> THEN alert(pg, sel, YearMsg("No country data for year ", year))
    ELSE drawn(pg, sel, <<Svg("drawTop10Bar", top10Of(rows))>>)
drawTop10Bar(pg, sel, data, year) == drawTop10BarRows(pg, sel, positiveInYear(data, year), year)

\* 2) drawGroupedByType
inFocus(d, focus) == \E i \in DOMAIN focus : focus[i] = d["entity"]
focusRows(data, year, focus) == SelectSeq(data, LAMBDA d : inYear(d, year) /\ inFocus(d, focus))
\* rows.find(r => r.entity === g)
firstOf(rows, g) == rows[MinOrZero({i \in DOMAIN rows : rows[i]["entity"] = g})]
groupBars(rows, g) ==
    [group |-> g, values |-> [i \in DOMAIN TYPE_ORDER |-> firstOf(rows, g)[TYPE_ORDER[i]]]]
tidyGroups(rows, focus) ==
    LET groups == SelectSeq(focus, LAMBDA c : \E i \in DOMAIN rows : rows[i]["entity"] = c)
    IN  [i \in DOMAIN groups |-> groupBars(rows, groups[i])]
drawGroupedRows(pg, sel, rows, year, focus) ==
    IF rows = <<>> THEN alert(pg, sel, YearMsg("No data for selected countries in ", year))
    ELSE drawn(pg, sel, <<Svg("drawGroupedByType", tidyGroups(rows, focus)), Legend>>)
drawGroupedByType(pg, sel, data, year, focus) ==
    drawGroupedRows(pg, sel, focusRows(data, year, focus), year, focus)

\* 3) drawWorldHeatmap
drawWorldHeatmap(pg, sel, worldRows) ==
    IF worldRows = <<>> THEN alert(pg, sel, "No World aggregate rows found.")
    ELSE drawn(pg, sel, <<Svg("drawWorldHeatmap", worldRows)>>)

\* 4) drawStacked100
drawStacked100(pg, sel, worldRows) ==
    IF worldRows = <<>> THEN alert(pg, sel, "No World aggregate rows found.")
    ELSE drawn(pg, sel, <<Svg("drawStacked100", worldRows), Legend>>)

\* d3.select(id).text(year)
setLabel(labels, id, year) == IF id \in DOMAIN labels THEN [labels EXCEPT ![id] = year] ELSE labels

\* 5) drawWaffle: besides its container it writes the label "#waffle-year"
worldRowsOf(worldRows, year) == SelectSeq(worldRows, LAMBDA r : inYear(r, year))

\* d3.sum of the five counts of a record
sumOfTypes(d) ==
    d[TYPE_ORDER[1]] + d[TYPE_ORDER[2]] + d[TYPE_ORDER[3]] + d[TYPE_ORDER[4]] + d[TYPE_ORDER[5]]

\* Math.floor(x) and Math.round(x) = floor(x + 0.5) of the quotient x = num / den
floorQuotient(num, den) ==
    IF den > 0 THEN num \div den ELSE (0 - num) \div (0 - den)
roundQuotient(num, den) ==
    IF den > 0 THEN (2 * num + den) \div (2 * den)
    ELSE (2 * (0 - num) + (0 - den)) \div (2 * (0 - den))

\* cellsByType: Math.round(pct * 100) cells for each type, pct = value / sum
\* with sum = d3.sum(totals) || 1; then used !== 100 adds 100 - used to the
\* cells of the first type
roundedCells(d, sum) == [i \in DOMAIN TYPE_ORDER |-> roundQuotient(100 * d[TYPE_ORDER[i]], sum)]
OrOne(n) == IF n = 0 THEN 1 ELSE n
sumCells(cells) == cells[1] + cells[2] + cells[3] + cells[4] + cells[5]
cellsByType(d) ==
    LET cells == roundedCells(d, OrOne(sumOfTypes(d)))
    IN  [cells EXCEPT ![1] = @ + (100 - sumCells(cells))]

\* for (let i = 0; i < n; i += 1) grid.push(key)
RECURSIVE squares(_, _)
squares(key, n) == IF n <= 0 THEN <<>> ELSE <<key>> \o squares(key, n - 1)

\* grid: the squares of the five types, in the order of the types
gridOf(cells) ==
    squares(TYPE_ORDER[1], cells[1]) \o squares(TYPE_ORDER[2], cells[2])
    \o squares(TYPE_ORDER[3], cells[3]) \o squares(TYPE_ORDER[4], cells[4])
    \o squares(TYPE_ORDER[5], cells[5])

drawWaffleRows(pg, sel, found, year) ==
    IF found = <<>> THEN alert(pg, sel, YearMsg("No World data for year ", year))
    ELSE [drawn(pg, sel, <<Svg("drawWaffle", gridOf(cellsByType(Head(found)))), Legend>>)
            EXCEPT !.labels = setLabel(@, "#waffle-year", year)]
drawWaffle(pg, sel, worldRows, year) == drawWaffleRows(pg, sel, worldRowsOf(worldRows, year), year)

\* drawWaffle of the first bundle: floor(share * 100) cells for each type,
\* then one more cell for the types with the largest fractional parts.
\* fraction is the fractional part of share * 100, as a number of |total|-ths
fraction(v, total) ==
    LET r == 100 * v - total * floorQuotient(100 * v, total)
    IN  IF r < 0 THEN 0 - r ELSE r
flooredCells(w, total) ==
    [i \in DOMAIN TYPE_ORDER |-> floorQuotient(100 * w[TYPE_ORDER[i]], total)]

\* withFrac.sort((a, b) => d3.descending(a.frac, b.frac)): the types by
\* fractional part; ties[i] is the place, among the types whose exact
\* fractional parts are equal, that the rounding of the division gives type i
withFracAscending(w, total, ties) ==
    LET after(i) ==
            Cardinality({j \in DOMAIN TYPE_ORDER :
                \/ fraction(w[TYPE_ORDER[j]], total) < fraction(w[TYPE_ORDER[i]], total)
                \/ /\ fraction(w[TYPE_ORDER[j]], total) = fraction(w[TYPE_ORDER[i]], total)
                   /\ ties[j] < ties[i]})
    IN  [k \in DOMAIN TYPE_ORDER |-> CHOOSE i \in DOMAIN TYPE_ORDER : after(i) = k - 1]
withFrac(w, total, ties) ==
    LET ahead(i) ==
            Cardinality({j \in DOMAIN TYPE_ORDER :
                \/ fraction(w[TYPE_ORDER[j]], total) > fraction(w[TYPE_ORDER[i]], total)
                \/ /\ fraction(w[TYPE_ORDER[j]], total) = fraction(w[TYPE_ORDER[i]], total)
                   /\ ties[j] < ties[i]})
    IN  [k \in DOMAIN TYPE_ORDER |-> CHOOSE i \in DOMAIN TYPE_ORDER : ahead(i) = k - 1]

\* for (let i = 0; i < Math.abs(missing); i++): a cell more for the i-th type
\* of the order when cells are missing, a cell less (if it has one) otherwise
RECURSIVE distribute(_, _, _, _)
distribute(cells, order, i, missing) ==
    IF i >= (IF missing < 0 THEN 0 - missing ELSE missing) THEN cells
    ELSE LET t == order[(i % Len(order)) + 1]
         IN  distribute(IF missing > 0 THEN [cells EXCEPT ![t] = @ + 1]
                        ELSE IF cells[t] > 0 THEN [cells EXCEPT ![t] = @ - 1]
                        ELSE cells,
                        order, i + 1, missing)
allocated(w, total, ties) ==
    distribute(flooredCells(w, total), withFrac(w, total, ties), 0,
               100 - sumCells(flooredCells(w, total)))

\* the cells drawn: padded with the type of the greatest value up to 100,
\* and cut at 100
biggest(w) ==
    TYPE_ORDER[CHOOSE i \in DOMAIN TYPE_ORDER :
                  /\ \A j \in DOMAIN TYPE_ORDER : w[TYPE_ORDER[j]] <= w[TYPE_ORDER[i]]
                  /\ \A j \in 1..(i - 1) : w[TYPE_ORDER[j]] < w[TYPE_ORDER[i]]]
cellsOfFirst(w, cells) ==
    slice(gridOf(cells) \o squares(biggest(w), 100 - Len(gridOf(cells))), 100)

drawWaffleFirstRows(pg, sel, found, year, ties) ==
    IF found = <<>> THEN alert(pg, sel, YearMsg("No World aggregate for ", year))
    ELSE IF sumOfTypes(Head(found)) = 0
         THEN alert(pg, sel, YearMsg("World total is zero in ", year))
    ELSE drawn(pg, sel,
               <<Svg("drawWaffle",
                     cellsOfFirst(Head(found),
                                  allocated(Head(found), sumOfTypes(Head(found)), ties))),
                 Legend, Caption("drawWaffle")>>)
drawWaffleFirst(pg, sel, worldRows, year, ties) ==
    drawWaffleFirstRows(pg, sel, worldRowsOf(worldRows, year), year, ties)

\* 6) drawHistogram
drawHistogramRows(pg, sel, rows, year) ==
    IF rows = <<>> THEN alert(pg, sel, YearMsg("No country data for year ", year))
    ELSE drawn(pg, sel, <<Svg("drawHistogram", rows), Caption("drawHistogram")>>)
drawHistogram(pg, sel, data, year) == drawHistogramRows(pg, sel, positiveInYear(data, year), year)

\* 7) drawViolin: one distribution per type, of the positive values
positiveOf(rows, k) == SelectSeq([i \in DOMAIN rows |-> rows[i][k]], LAMBDA v : v > 0)
tidyValues(rows) == [i \in DOMAIN TYPE_ORDER |-> [key |-> TYPE_ORDER[i], values |-> positiveOf(rows, TYPE_ORDER[i])]]
drawDistribution(pg, fn, sel, rows, year) ==
    IF rows = <<>> THEN alert(pg, sel, YearMsg("No data available for ", year))
    ELSE IF \A i \in DOMAIN TYPE_ORDER : positiveOf(rows, TYPE_ORDER[i]) = <<>>
         THEN alert(pg, sel, YearMsg("No positive values by type in ", year))
    ELSE drawn(pg, sel, <<Svg(fn, tidyValues(rows))>>)
drawViolin(pg, sel, data, year) ==
    drawDistribution(pg, "drawViolin", sel, positiveIsoInYear(data, year), year)

\* s.slice().sort(d3.ascending)
RECURSIVE sortAscending(_)
sortAscending(values) ==
    IF values = <<>> THEN <<>>
    ELSE LET x    == values[Len(values)]
             done == sortAscending(SubSeq(values, 1, Len(values) - 1))
             k    == Cardinality({i \in DOMAIN done : done[i] <= x})
         IN  SubSeq(done, 1, k) \o <<x>> \o SubSeq(done, k + 1, Len(done))

\* d3.quantileSorted(s, num / 4), in quarters: s[i0] + (s[i0 + 1] - s[i0]) * (i - i0)
\* with i = (n - 1) * num / 4 and i0 = floor(i)
quantileSorted(s, num) ==
    LET i4 == (Len(s) - 1) * num
        i0 == i4 \div 4
    IN  IF i4 % 4 = 0 THEN 4 * s[i0 + 1]
        ELSE 4 * s[i0 + 1] + (s[i0 + 2] - s[i0 + 1]) * (i4 % 4)

\* the values within the fences q1 - 1.5 * iqr and q3 + 1.5 * iqr (q1 and q3
\* in quarters, so the comparison is made in eighths)
withinFences(v, q1, q3) ==
    /\ 8 * v >= 2 * q1 - 3 * (q3 - q1)
    /\ 8 * v <= 2 * q3 + 3 * (q3 - q1)

\* the statistics of one type; q1, med, q3, low and high are in quarters
statsOf(key, s, q1, med, q3, inside, cy) ==
    [key |-> key, n |-> Len(s), q1 |-> q1, med |-> med, q3 |-> q3,
     low  |-> IF inside # <<>> THEN 4 * inside[1] ELSE q1,
     high |-> IF inside # <<>> THEN 4 * inside[Len(inside)] ELSE q3,
     outliers |-> LET out == SelectSeq(s, LAMBDA v : ~withinFences(v, q1, q3))
                  IN  [j \in DOMAIN out |-> [v |-> out[j], cy |-> cy]]]
boxStats(key, s, cy) ==
    IF s = <<>>
    THEN [key |-> key, n |-> 0, q1 |-> 0, med |-> 0, q3 |-> 0, low |-> 0, high |-> 0,
          outliers |-> <<>>]
    ELSE statsOf(key, s, quantileSorted(s, 1), quantileSorted(s, 2), quantileSorted(s, 3),
                 SelectSeq(s, LAMBDA v : withinFences(v, quantileSorted(s, 1),
                                                      quantileSorted(s, 3))),
                 cy)

\* 8) drawBoxplot: the box of every type and its outlier circles; random[i]
\* is what Math.random() returns for the outlier group of the i-th type
drawBoxplotRows(pg, sel, rows, year, random) ==
    IF rows = <<>> THEN alert(pg, sel, YearMsg("No data available for ", year))
    ELSE IF \A i \in DOMAIN TYPE_ORDER : positiveOf(rows, TYPE_ORDER[i]) = <<>>
         THEN alert(pg, sel, YearMsg("No positive values by type in ", year))
    ELSE drawn(pg, sel,
               <<Svg("drawBoxplot",
                     [i \in DOMAIN TYPE_ORDER |->
                         boxStats(TYPE_ORDER[i],
                                  sortAscending(positiveOf(rows, TYPE_ORDER[i])),
                                  random[i])])>>)
drawBoxplot(pg, sel, data, year, random) ==
    drawBoxplotRows(pg, sel, positiveIsoInYear(data, year), year, random)
\* whether drawBoxplot draws an outlier circle, that is calls Math.random()
drawsOutliers(data, year) ==
    \E i \in DOMAIN TYPE_ORDER :
        boxStats(TYPE_ORDER[i],
                 sortAscending(positiveOf(positiveIsoInYear(data, year), TYPE_ORDER[i])),
                 0).outliers # <<>>

\* 9) drawTimeSeries
drawTimeSeries(pg, sel, worldRows) ==
    IF worldRows = <<>> THEN alert(pg, sel, "No World aggregate rows found.")
    ELSE drawn(pg, sel, <<Svg("drawTimeSeries", worldRows)>>)

\* 10) drawChoropleth, 11) drawProportionalMap, 12) drawContourMap.
\* geo says what the GeoJSON file held: "ok" (a feature for every country),
\* "nomatch" (features, none for a country of the data), "invalid" (no
\* feature array) or "broken" (an array with an entry that is no feature:
\* the projection raises a TypeError after the svg was appended)
positiveTotals(rows) == SelectSeq(rows, LAMBDA d : d["total"] > 0)
drawMap(pg, fn, sel, geo, rows, year, needsPoints) ==
    IF geo = "invalid" THEN alert(pg, sel, "World boundaries are missing or invalid.")
    ELSE IF rows = <<>> THEN alert(pg, sel, YearMsg("No country data for year ", year))
    ELSE IF positiveTotals(rows) = <<>>
         THEN alert(pg, sel, YearMsg("No positive country totals for ", year))
    ELSE IF geo = "broken" THEN [drawn(pg, sel, <<Svg(fn, <<>>)>>) EXCEPT !.threw = TRUE]
    ELSE IF needsPoints /\ geo = "nomatch"
         THEN alert(pg, sel, YearMsg("No countries with valid geometries and data in ", year))
    ELSE drawn(pg, sel, <<Svg(fn, IF geo = "nomatch" THEN <<>> ELSE positiveTotals(rows))>>)
drawChoropleth(pg, sel, geo, data, year) ==
    drawMap(pg, "drawChoropleth", sel, geo, isoInYear(data, year), year, FALSE)
drawProportionalMap(pg, sel, geo, data, year) ==
    drawMap(pg, "drawProportionalMap", sel, geo, isoInYear(data, year), year, TRUE)
drawContourMap(pg, sel, geo, data, year) ==
    drawMap(pg, "drawContourMap", sel, geo, isoInYear(data, year), year, TRUE)

\* Math.max(0, +d[t] || 0)
flowOf(d, t) == IF d[t] > 0 THEN d[t] ELSE 0

\* typeVector(d)
typeVector(d) == [i \in DOMAIN TYPE_ORDER |-> flowOf(d, TYPE_ORDER[i])]

\* 13) drawSankey: flows from the types to the top countries and to the rest
topNames(top) == {top[i]["entity"] : i \in DOMAIN top}
othersOf(yearRows, top) == SelectSeq(yearRows, LAMBDA d : d["entity"] \notin topNames(top))
hasFlows(rowsIn) == \E i \in DOMAIN rowsIn : \E j \in DOMAIN TYPE_ORDER : flowOf(rowsIn[i], TYPE_ORDER[j]) > 0
\* otherAgg[t] = d3.sum(others, d => Math.max(0, +d[t] || 0))
RECURSIVE sumFlows(_, _)
sumFlows(rowsIn, t) ==
    IF rowsIn = <<>> THEN 0 ELSE flowOf(Head(rowsIn), t) + sumFlows(Tail(rowsIn), t)
MIN_FLOW == 0
\* the links of one target: one for every type whose flow exceeds MIN_FLOW
flowLinks(target, flows) ==
    SelectSeq([j \in DOMAIN TYPE_ORDER |->
                  [type |-> TYPE_ORDER[j], target |-> target, value |-> flows[j]]],
              LAMBDA l : l.value > MIN_FLOW)
\* topSorted.forEach: the links to the i-th country node and to the next ones
RECURSIVE countryLinks(_, _)
countryLinks(top, i) ==
    IF i > Len(top) THEN <<>>
    ELSE flowLinks(i, typeVector(top[i])) \o countryLinks(top, i + 1)
otherAgg(others) == [j \in DOMAIN TYPE_ORDER |-> sumFlows(others, TYPE_ORDER[j])]
includeOther(others) == sumCells(otherAgg(others)) > 0
\* 'Other countries'
S_OtherCountries ==
    <<"O", "t", "h", "e", "r", " ", "c", "o", "u", "n", "t", "r", "i", "e", "s">>
\* the labels of the country nodes, "Other countries" pushed last
countryNodes(top, others) ==
    [i \in DOMAIN top |-> top[i]["entity"]]
    \o (IF includeOther(others) THEN <<Str(S_OtherCountries)>> ELSE <<>>)
sankeyLinks(top, others) ==
    countryLinks(top, 1)
    \o (IF includeOther(others) THEN flowLinks(Len(top) + 1, otherAgg(others)) ELSE <<>>)
drawSankeyRows(pg, sel, yearRows, top, year) ==
    IF yearRows = <<>> THEN alert(pg, sel, YearMsg("No country data for year ", year))
    ELSE IF ~hasFlows(yearRows) THEN alert(pg, sel, YearMsg("No positive flows for ", year))
    \* container.node() is null when the page has no such container
    ELSE IF sel \notin DOMAIN pg.cs THEN [pg EXCEPT !.threw = TRUE]
    ELSE drawn(pg, sel, <<Svg("drawSankey", [top |-> top, others |-> othersOf(yearRows, top),
                                                nodes |-> countryNodes(top, othersOf(yearRows, top)),
                                                links |-> sankeyLinks(top, othersOf(yearRows, top))]),
                          Caption("drawSankey")>>)
drawSankey(pg, sel, lib, data, year) ==
    IF ~lib
    THEN alert(pg, sel, "Sankey requires d3-sankey. Include it in your HTML (d3-sankey script).")
    ELSE drawSankeyRows(pg, sel, positiveInYear(data, year),
                        slice(sortDescending(positiveInYear(data, year)), 10), year)

\* 14) drawNetwork
RECURSIVE gcd(_, _)
gcd(a, b) == IF b = 0 THEN a ELSE gcd(b, a % b)
\* the vector divided by the greatest common divisor of its entries: the
\* cosine similarity is the same
reduced(v) ==
    LET g == gcd(gcd(gcd(gcd(v[1], v[2]), v[3]), v[4]), v[5])
    IN  IF g = 0 THEN v ELSE [i \in DOMAIN v |-> v[i] \div g]
dot(a, b) == a[1] * b[1] + a[2] * b[2] + a[3] * b[3] + a[4] * b[4] + a[5] * b[5]
\* cosineSim(a, b) >= 0.65, that is (20 dot)^2 >= 13^2 na nb, and the
\* similarity is 0 when a vector is null
aboveThreshold(a, b) ==
    /\ dot(a, a) > 0
    /\ dot(b, b) > 0
    /\ ((20 * dot(a, b)) * (20 * dot(a, b))) \div dot(b, b) >= 169 * dot(a, a)
similar(d1, d2) == aboveThreshold(reduced(typeVector(d1)), reduced(typeVector(d2)))
\* the pairs i < j of nodes with sim >= SIM_THRESHOLD
allLinks(rows) ==
    {p \in (DOMAIN rows) \X (DOMAIN rows) : p[1] < p[2] /\ similar(rows[p[1]], rows[p[2]])}
\* the square of cosineSim of the two nodes of a link, as <<numerator, denominator>>
simOf(rows, p) ==
    LET a == reduced(typeVector(rows[p[1]]))
        b == reduced(typeVector(rows[p[2]]))
    IN  <<dot(a, b) * dot(a, b), dot(a, a) * dot(b, b)>>
\* a / b < c / d for b, d > 0, by the continued fractions of the two
RECURSIVE lessFraction(_, _, _, _)
lessFraction(a, b, c, d) ==
    IF a \div b # c \div d THEN a \div b < c \div d
    ELSE IF c % d = 0 THEN FALSE
    ELSE IF a % b = 0 THEN TRUE
    ELSE lessFraction(d, c % d, b, a % b)
\* a link with its similarity: <<source, target, numerator, denominator>>
withSim(rows, p) == <<p[1], p[2], simOf(rows, p)[1], simOf(rows, p)[2]>>
\* list.slice().sort((a, b) => d3.descending(a.sim, b.sim)): the link q stands
\* before the link p; links of equal similarity keep the order of allLinks
standsBefore(q, p) ==
    \/ lessFraction(p[3], p[4], q[3], q[4])
    \/ /\ ~lessFraction(q[3], q[4], p[3], p[4])
       /\ (q[1] < p[1] \/ (q[1] = p[1] /\ q[2] < p[2]))
TOP_K == 3
linksByNode(all, n) == {p \in all : p[1] = n \/ p[2] = n}
\* .slice(0, TOP_K) of the sorted list of the node
topLinks(list, K) ==
    {p \in list : Cardinality({q \in list : standsBefore(q, p)}) < K}
\* kept: the top links of every node; links = allLinks.filter(kept.has(key))
links(rows, allOf) ==
    UNION {UNION {UNION {{<<p[1], p[2]>> : p \in topLinks(list, TOP_K)} :
                         list \in {linksByNode(all, n)}} :
                  n \in DOMAIN rows} :
           all \in {{withSim(rows, p) : p \in allOf}}}
\* the pin state of a node: fx: null, fy: null when the node is built
Unpinned == [fx |-> Null, fy |-> Null]
PinnedAt(at) == [fx |-> Num(at[1]), fy |-> Num(at[2])]
\* the handlers of the network; m holds the nodes' pin states and the node
\* of the drag gesture in progress (0 when there is none)
dragStart(m, n, at) == [m EXCEPT !.pins[n] = PinnedAt(at), !.active = n]
dragMove(m, n, at)  == [m EXCEPT !.pins[n] = PinnedAt(at)]
dragEnd(m, n)       == [m EXCEPT !.active = 0]
dblclickAll(m, n)   == [m EXCEPT !.pins = [i \in DOMAIN m.pins |-> Unpinned]]
dblclick(m, n)      == [m EXCEPT !.pins[n] = Unpinned]
resetLayout(m)      == [m EXCEPT !.pins = [i \in DOMAIN m.pins |-> Unpinned]]
drawNetworkRows(pg, sel, rows, year) ==
    IF rows = <<>> THEN alert(pg, sel, YearMsg("No country data for year ", year))
    ELSE IF allLinks(rows) = {}
         THEN alert(pg, sel, YearMsg("No links above similarity threshold (0.65) in ", year))
    ELSE drawn(pg, sel, <<Button, Svg("drawNetwork", [nodes |-> rows, links |-> links(rows, allLinks(rows)),
                                                 pins |-> [i \in DOMAIN rows |-> Unpinned],
                                                 active |-> 0]),
                          Caption("drawNetwork")>>)
drawNetwork(pg, sel, data, year) ==
    drawNetworkRows(pg, sel, topCountriesByTotal(data, year, 18), year)

\* the functions the main bundle defines
RENDERERS ==
    {"drawTop10Bar", "drawGroupedByType", "drawWorldHeatmap", "drawStacked100",
     "drawWaffle", "drawHistogram", "drawViolin", "drawBoxplot", "drawTimeSeries",
     "drawChoropleth", "drawProportionalMap", "drawContourMap", "drawSankey",
     "drawNetwork"}

\* the call c made with the prepared data
invoke(pg, c, data, env, year) ==
    CASE c.fn = "drawTop10Bar"        -> drawTop10Bar(pg, c.sel, data[c.data], year)
      [] c.fn = "drawGroupedByType"   -> drawGroupedByType(pg, c.sel, data[c.data], year, FOCUS_COUNTRIES)
      [] c.fn = "drawWorldHeatmap"    -> drawWorldHeatmap(pg, c.sel, data[c.data])
      [] c.fn = "drawStacked100"      -> drawStacked100(pg, c.sel, data[c.data])
      [] c.fn = "drawWaffle"          -> drawWaffle(pg, c.sel, data[c.data], year)
      [] c.fn = "drawHistogram"       -> drawHistogram(pg, c.sel, data[c.data], year)
      [] c.fn = "drawViolin"          -> drawViolin(pg, c.sel, data[c.data], year)
      [] c.fn = "drawBoxplot"         -> drawBoxplot(pg, c.sel, data[c.data], year, env.random)
      [] c.fn = "drawTimeSeries"      -> drawTimeSeries(pg, c.sel, data[c.data])
      [] c.fn = "drawChoropleth"      -> drawChoropleth(pg, c.sel, env.geo, data[c.data], year)
      [] c.fn = "drawProportionalMap" -> drawProportionalMap(pg, c.sel, env.geo, data[c.data], year)
      [] c.fn = "drawContourMap"      -> drawContourMap(pg, c.sel, env.geo, data[c.data], year)
      [] c.fn = "drawSankey"          -> drawSankey(pg, c.sel, env.sankey, data[c.data], year)
      [] c.fn = "drawNetwork"         -> drawNetwork(pg, c.sel, data[c.data], year)
      \* a name that is bound to no function: ReferenceError
      [] OTHER                        -> [pg EXCEPT !.threw = TRUE]

\* the array methods each renderer calls on the array it is given, in the
\* order of the code
ARRAY_OPS ==
    ("drawTop10Bar"        :> <<"filter", "sort", "slice">>) @@
    ("drawGroupedByType"   :> <<"filter">>) @@
    ("drawWorldHeatmap"    :> <<"length", "map", "sort", "forEach">>) @@
    ("drawStacked100"      :> <<"length", "map", "map", "sort">>) @@
    ("drawWaffle"          :> <<"find">>) @@
    ("drawHistogram"       :> <<"filter">>) @@
    ("drawViolin"          :> <<"filter">>) @@
    ("drawBoxplot"         :> <<"filter">>) @@
    ("drawTimeSeries"      :> <<"length", "slice", "sort">>) @@
    ("drawChoropleth"      :> <<"filter">>) @@
    ("drawProportionalMap" :> <<"filter">>) @@
    ("drawContourMap"      :> <<"filter">>) @@
    ("drawSankey"          :> <<"filter">>) @@
    ("drawNetwork"         :> <<"filter", "sort", "slice">>)

\* as if filter, map and slice handed back their receiver
argumentAfterNoCopy(data, ops) ==
    IF \E i \in DOMAIN ops : ops[i] = "sort" THEN sortDescending(data) ELSE data

\* the array the caller holds after these calls.  filter, map and slice
\* return a new array and the calls chained after them work on that one;
\* length, find and forEach read; a sort whose receiver is still the array
\* given sorts it in place
argumentAfter(data, ops) ==
    IF \E i \in DOMAIN ops :
          /\ ops[i] = "sort"
          /\ \A j \in 1..(i - 1) : ops[j] \notin {"filter", "map", "slice"}
    THEN sortDescending(data)
    ELSE data

(***************************************************************************)
(* part_002: the loader prepares the data of its two charts, and the       *)
(* renderers draw what they are given                                      *)
(***************************************************************************)
Title(fn) == [kind |-> "title", by |-> fn]
Note(msg) == [kind |-> "note", msg |-> msg]

\* wrap.selectAll("*").remove()
removeAll(cs, sel) == html(cs, sel)

\* rows2023 and top10 of the loader
top10Bars(countriesOnly) ==
    LET top == slice(sortDescending(positiveInYear(countriesOnly, SNAPSHOT_YEAR)), 10)
    IN  [i \in DOMAIN top |-> [name |-> top[i]["entity"], value |-> top[i]["total"]]]

\* top5Names and groupedRows of the loader
top5Names(countriesOnly) ==
    LET top == slice(sortDescending(positiveInYear(countriesOnly, SNAPSHOT_YEAR)), 5)
    IN  {top[i]["entity"] : i \in DOMAIN top}
groupedRows(countriesOnly) ==
    LET kept == SelectSeq(countriesOnly,
                          LAMBDA d : inYear(d, SNAPSHOT_YEAR)
                                     /\ d["entity"] \in top5Names(countriesOnly))
    IN  [i \in DOMAIN kept |->
            [group |-> kept[i]["entity"],
             values |-> [k \in DOMAIN TYPE_ORDER |-> kept[i][TYPE_ORDER[k]]]]]

\* drawBar
drawBar(pg, sel, data) ==
    [pg EXCEPT !.cs = appendAll(removeAll(@, sel), sel,
                                <<Title("drawBar"), Svg("drawBar", data), Caption("drawBar")>>)]

\* totals.get(d.group): the Map keeps the sum of the last row of a group
sumOf(values) == values[1] + values[2] + values[3] + values[4] + values[5]
groupTotal(rs, g) == sumOf(rs[CHOOSE i \in DOMAIN rs :
                               rs[i].group = g /\ \A j \in DOMAIN rs : rs[j].group = g => j <= i].values)
withGroupTotals(rs) ==
    [i \in DOMAIN rs |-> [group |-> rs[i].group, values |-> rs[i].values,
                          total |-> groupTotal(rs, rs[i].group)]]

\* drawGroupedBar: each call that draws appends one tooltip div to the body
drawGroupedBar(pg, sel, rs) ==
    IF rs = <<>>
    THEN [pg EXCEPT !.cs = appendAll(removeAll(@, sel), sel,
                                     <<Title("drawGroupedBar"), Note("No data available.")>>)]
    ELSE [pg EXCEPT !.cs = appendAll(removeAll(@, sel), sel,
                                     <<Title("drawGroupedBar"),
                                       Svg("drawGroupedBar", sortDescending(withGroupTotals(rs))),
                                       Legend, Caption("drawGroupedBar")>>),
                    !.labels = setLabel(@, "body", @["body"] + 1)]

\* the call c of the loader of part_002
invoke002(pg, c, countriesOnly) ==
    CASE c.fn = "drawBar"        -> drawBar(pg, c.sel, top10Bars(countriesOnly))
      [] c.fn = "drawGroupedBar" -> drawGroupedBar(pg, c.sel, groupedRows(countriesOnly))

Call(fn, sel, data) == [fn |-> fn, sel |-> sel, data |-> data]

\* the renderer invocations of the main bundle's dispatch, up to the call of
\* the function that is not defined
MAIN_DISPATCH ==
    <<Call("drawTop10Bar", "#bar-top10", "countries"),
      Call("drawGroupedByType", "#grouped", "countries"),
      Call("drawWorldHeatmap", "#heatmap", "worldOnly"),
      Call("drawStacked100", "#stack100", "worldOnly"),
      Call("drawWaffle", "#waffle", "worldOnly"),
      Call("drawHistogram", "#histogram", "countries"),
      Call("drawViolin", "#violin", "countries"),
      Call("drawBoxplot", "#boxplot", "countries"),
      Call("drawTimeSeries", "#timeseries", "worldOnly"),
      Call("drawChoropleth", "#map-choropleth", "countries"),
      Call("drawProportionalMap", "#map-symbol", "countries"),
      Call("drawContourMap", "#map-contour", "countries"),
      Call("drawSankey", "#sankey", "countries")>>

FIRST_DISPATCH ==
    <<Call("drawTop10Bar", "#bar-top10", "countries"),
      Call("drawGroupedByType", "#grouped", "countries"),
      Call("drawWorldHeatmap", "#heatmap", "worldOnly"),
      Call("drawStacked100", "#stack100", "worldOnly"),
      Call("drawWaffle", "#waffle", "worldOnly")>>

PART_000_DISPATCH == SubSeq(FIRST_DISPATCH, 1, 3)

PART_002_DISPATCH ==
    <<Call("drawBar", "#bar-top10-2023", "countriesOnly"),
      Call("drawGroupedBar", "#grouped-2023", "countriesOnly")>>

TOP10_DISPATCH == <<Call("drawBarChart", TOP10_MOUNT, "countries")>>

\* the year labels of the main bundle's page
MAIN_LABELS ==
    <<"#year-top", "#year-grouped", "#year-waffle", "#waffle-year", "#year-sankey",
      "#year-network">>
FIRST_LABELS    == <<"#year-top", "#year-grouped", "#year-waffle">>
PART_000_LABELS == <<"#year-top", "#year-grouped">>

RECURSIVE setLabels(_, _, _)
setLabels(labels, ids, year) ==
    IF ids = <<>> THEN labels
    ELSE setLabels(setLabel(labels, Head(ids), year), Tail(ids), year)

\* the statements of the main bundle's dispatch: the thirteen renderer calls
\* and the call of drawCountrySimilarityNetwork, a name the bundle binds to
\* no function
MAIN_SCRIPT ==
    Append(MAIN_DISPATCH, Call("drawCountrySimilarityNetwork", "#network", "countries"))

\* the calls made inside try/catch, with the message of their catch
MAP_ERRORS ==
    ("drawChoropleth" :> "Could not render map (GeoJSON error).") @@
    ("drawProportionalMap" :> "Could not render proportional symbol map (GeoJSON error).") @@
    ("drawContourMap" :> "Could not render contour map (GeoJSON error).")

\* try { draw...(sel, ...) } catch (e) { alertIn(sel, msg) } around the map calls
caught(pg, c) ==
    IF pg.threw /\ c.fn \in DOMAIN MAP_ERRORS
    THEN [pg EXCEPT !.cs = alertIn(@, c.sel, MAP_ERRORS[c.fn]), !.threw = FALSE]
    ELSE pg

\* one statement of the dispatch
step(st, c, data, env) ==
    [pg    |-> caught(invoke(st.pg, c, data, env, SNAPSHOT_YEAR), c),
     calls |-> IF c.fn \in RENDERERS THEN Append(st.calls, c) ELSE st.calls]

\* the statements in order, up to the first error that is not caught
RECURSIVE run(_, _, _, _)
run(st, script, data, env) ==
    IF script = <<>> \/ st.pg.threw THEN st
    ELSE run(step(st, Head(script), data, env), Tail(script), data, env)

\* lines 667-717 of the load handler
dispatchMain(cs, labels, data, env) ==
    run([pg |-> Page(cs, setLabels(labels, MAIN_LABELS, SNAPSHOT_YEAR)), calls |-> <<>>],
        MAIN_SCRIPT, data, env)

\* what the page can find besides the CSV: the GeoJSON file, and whether
\* the d3-sankey script is included
\* and what Math.random() returns to the five outlier groups of drawBoxplot
NoRandom == <<0, 0, 0, 0, 0>>
Randoms == {NoRandom, <<0, 1, 0, 1, 1>>}
withRandom(e, random) == [geo |-> e.geo, sankey |-> e.sankey, random |-> random]
NoEnv == [geo |-> "pending", sankey |-> TRUE, random |-> NoRandom]
Envs(b) ==
    IF b = "main"
    THEN {withRandom(e, random) :
             e \in {[geo |-> "ok", sankey |-> TRUE], [geo |-> "broken", sankey |-> TRUE],
                    [geo |-> "invalid", sankey |-> FALSE]},
             random \in Randoms}
    ELSE {NoEnv}

\* the year labels of a bundle's page; for part_002 and part_003 the number
\* of tooltip divs in the body
Labels(b) ==
    CASE b = "main"     -> Range(MAIN_LABELS)
      [] b = "first"    -> Range(FIRST_LABELS)
      [] b = "part_000" -> Range(PART_000_LABELS)
      [] b \in {"part_002", "part_003"} -> {"body"}
      [] OTHER          -> {}

\* lines 56-89 of the loader of part_002
RECURSIVE dispatch002(_, _, _)
dispatch002(pg, script, countriesOnly) ==
    IF script = <<>> THEN pg
    ELSE dispatch002(invoke002(pg, Head(script), countriesOnly), Tail(script), countriesOnly)

\* the containers after the renderers of a dispatch have run: a renderer
\* writes into its own container when the page has it
RECURSIVE render(_, _)
render(cs, dispatch) ==
    IF dispatch = <<>> THEN cs
    ELSE LET c == Head(dispatch)
         IN  render(IF c.sel \in DOMAIN cs THEN [cs EXCEPT ![c.sel] = Output(c.fn)] ELSE cs,
                    Tail(dispatch))

\* the chart containers of a bundle's page
Selectors(b) ==
    CASE b = "main"           -> Range(ALL_VIZ_SELECTORS)
      [] b = "first"          -> Range(FIRST_SELECTORS)
      [] b = "part_000"       -> Range(PART_000_SELECTORS)
      [] b = "part_003_top10" -> {TOP10_MOUNT}
      [] OTHER                -> Range(PART_002_SELECTORS)

\* the pages: every container present, or the page without "#heatmap" and
\* "#sankey" (without "#grouped-2023" for part_002 and part_003)
Pages(b) ==
    {Selectors(b), Selectors(b) \ {"#heatmap", "#sankey", "#grouped-2023"}}

NoColumns ==
    [entity |-> Undefined, code |-> Undefined, year |-> Undefined,
     interstate |-> Undefined, intrastate |-> Undefined, extrasystemic |-> Undefined,
     nonstate |-> Undefined, onesided |-> Undefined]

\* headers.map / raw.map
Map(seq, F(_)) == [i \in DOMAIN seq |-> F(seq[i])]

(***************************************************************************)
(* State                                                                   *)
(***************************************************************************)
VARIABLES
    bundle,         \* which script runs on the page
    phase,          \* the load promise: loading, fulfilled, rejected, settled
    raw,            \* the parsed CSV handed to the then-callback
    outcome,        \* how far the then-callback got
    C,              \* the detected columns
    rows,           \* the canonical records (rows, tidy or normalized in the source)
    countries,      \* the records kept by isISO3(code) && entity !== "World"
    worldOnly,      \* the records with entity === "World"
    countriesOnly,  \* part_002, part_003: the records kept by isISO3(code)
    containers,     \* content of every chart container the page has
    calls,          \* the renderer invocations, in order
    labels,         \* the year shown by every year label of the page, 0 when blank
    env             \* the GeoJSON file delivered and the libraries of the page

vars == <<bundle, phase, raw, outcome, C, rows, countries, worldOnly,
          countriesOnly, containers, calls, labels, env>>

(***************************************************************************)
(* Init: the page after the script has been evaluated.  The first bundle   *)
(* calls drawWaffle("#waffle", [], SNAPSHOT_YEAR) at top level, which      *)
(* finds no World row.                                                     *)
(***************************************************************************)
Init ==
    /\ bundle \in Bundles
    /\ \E page \in Pages(bundle) :
          containers =
              LET blank == [sel \in page |-> Empty]
              IN  IF bundle = "first" THEN alertIn(blank, "#waffle", MSG_NO_WORLD_YEAR)
                  ELSE blank
    /\ phase = "loading"
    /\ raw = <<>>
    /\ outcome = "pending"
    /\ C = NoColumns
    /\ rows = <<>>
    /\ countries = <<>>
    /\ worldOnly = <<>>
    /\ countriesOnly = <<>>
    /\ calls = <<>>
    /\ labels = LET blank == [id \in Labels(bundle) |-> 0]
                IN  IF bundle = "first" THEN setLabel(blank, "#year-waffle", SNAPSHOT_YEAR)
                    ELSE blank
    /\ env = NoEnv

(***************************************************************************)
(* The load promise settles                                                *)
(***************************************************************************)
\* d3.csv (and d3.json in the main bundle) delivered the parsed file; what
\* the geometry file and the page's libraries hold shows when the dispatch
\* reads them
Resolve ==
    /\ phase = "loading"
    /\ raw' \in RawFiles
    /\ phase' = "fulfilled"
    /\ UNCHANGED <<bundle, outcome, C, rows, countries, worldOnly, countriesOnly,
                   containers, calls, labels, env>>

\* a file could not be fetched or parsed
Reject ==
    /\ phase = "loading"
    /\ phase' = "rejected"
    /\ outcome' = "load-failed"
    /\ UNCHANGED <<bundle, raw, C, rows, countries, worldOnly, countriesOnly,
                   containers, calls, labels, env>>

(***************************************************************************)
(* then-callbacks                                                          *)
(***************************************************************************)
isCountry(r) == isISO3(r["code"]) /\ r["entity"] # Str(S_World)
\* worldOnly taken as whatever has no ISO-3 code
isNotISO3(r) == ~isISO3(r["code"])
isWorld(r)   == r["entity"] = Str(S_World)

\* the required list without the intrastate column
requiredWithoutIntrastate(cols) ==
    <<cols.entity, cols.code, cols.year, cols.nonstate, cols.onesided>>

\* the columns the main and the first bundle cannot do without
required(cols) ==
    <<cols.entity, cols.code, cols.year, cols.intrastate, cols.nonstate, cols.onesided>>

\* required.some(x => !x)
someMissing(req) == \E i \in DOMAIN req : Falsy(req[i])

\* main bundle.  An error raised by the dispatch rejects the promise that
\* the catch-callback is attached to.
ThenMain ==
    /\ bundle = "main"
    /\ phase = "fulfilled"
    /\ IF Len(raw) = 0
       THEN /\ phase' = "rejected"
            /\ outcome' = "empty-csv"
            /\ UNCHANGED <<C, rows, countries, worldOnly, containers, calls, labels, env>>
       ELSE /\ C' = detectColumns(ObjectKeys(raw[1]))
            /\ IF someMissing(required(C'))
               THEN /\ containers' = alertAll(containers, ALL_VIZ_SELECTORS, MSG_MISSING)
                    /\ phase' = "settled"
                    /\ outcome' = "missing-columns"
                    /\ UNCHANGED <<rows, countries, worldOnly, calls, labels, env>>
               ELSE /\ rows' = Map(raw, LAMBDA d : mapRow(d, C'))
                    /\ countries' = SelectSeq(rows', isCountry)
                    /\ worldOnly' = SelectSeq(rows', isWorld)
                    /\ env' \in {e \in Envs(bundle) :
                                    e.random = NoRandom \/ drawsOutliers(countries', SNAPSHOT_YEAR)}
                    /\ \E st \in {dispatchMain(containers, labels,
                                               [countries |-> countries', worldOnly |-> worldOnly'],
                                               env')} :
                          /\ calls' = st.calls
                          /\ containers' = st.pg.cs
                          /\ labels' = st.pg.labels
                          /\ phase' = IF st.pg.threw THEN "rejected" ELSE "settled"
                    /\ outcome' = "dispatched"
    /\ UNCHANGED <<bundle, raw, countriesOnly>>

\* first bundle
ThenFirst ==
    /\ bundle = "first"
    /\ phase = "fulfilled"
    /\ IF Len(raw) = 0
       THEN /\ phase' = "rejected"
            /\ outcome' = "empty-csv"
            /\ UNCHANGED <<C, rows, countries, worldOnly, containers, calls, labels>>
       ELSE /\ C' = detectColumnsFirst(ObjectKeys(raw[1]))
            /\ IF someMissing(required(C'))
               THEN /\ containers' = alertAll(containers, FIRST_SELECTORS, MSG_MISSING_FIRST)
                    /\ phase' = "settled"
                    /\ outcome' = "missing-columns"
                    /\ UNCHANGED <<rows, countries, worldOnly, calls, labels>>
               ELSE /\ rows' = Map(raw, LAMBDA d : mapRowFirst(d, C'))
                    /\ countries' = SelectSeq(rows', isCountry)
                    /\ worldOnly' = SelectSeq(rows', isWorld)
                    /\ calls' = FIRST_DISPATCH
                    /\ containers' = render(containers, FIRST_DISPATCH)
                    /\ labels' = setLabels(labels, FIRST_LABELS, SNAPSHOT_YEAR)
                    /\ phase' = "settled"
                    /\ outcome' = "dispatched"
    /\ UNCHANGED <<bundle, raw, countriesOnly, env>>

\* part_000: no check of the detected columns
ThenPart000 ==
    /\ bundle = "part_000"
    /\ phase = "fulfilled"
    /\ IF Len(raw) = 0
       THEN /\ phase' = "rejected"
            /\ outcome' = "empty-csv"
            /\ UNCHANGED <<C, rows, countries, worldOnly, containers, calls, labels>>
       ELSE /\ C' = detectColumnsFirst(ObjectKeys(raw[1]))
            /\ rows' = Map(raw, LAMBDA d : mapRowFirst(d, C'))
            /\ countries' = SelectSeq(rows', isCountry)
            /\ worldOnly' = SelectSeq(rows', isWorld)
            /\ calls' = PART_000_DISPATCH
            /\ containers' = render(containers, PART_000_DISPATCH)
            /\ labels' = setLabels(labels, PART_000_LABELS, SNAPSHOT_YEAR)
            /\ phase' = "settled"
            /\ outcome' = "dispatched"
    /\ UNCHANGED <<bundle, raw, countriesOnly, env>>

\* part_002 and the first loader of part_003: countriesOnly keeps every
\* record with an ISO-3 code
ThenPart002 ==
    /\ bundle \in {"part_002", "part_003"}
    /\ phase = "fulfilled"
    /\ IF Len(raw) = 0
       THEN /\ phase' = "settled"
            /\ outcome' = "empty-csv"
            /\ UNCHANGED <<C, rows, countriesOnly, containers, calls, labels>>
       ELSE /\ C' = detectColumnsFirst(ObjectKeys(raw[1]))
            /\ rows' = Map(raw, LAMBDA d : mapRowFirst(d, C'))
            /\ countriesOnly' = SelectSeq(rows', LAMBDA d : isISO3(d["code"]))
            /\ calls' = PART_002_DISPATCH
            /\ \E pg \in {dispatch002(Page(containers, labels), PART_002_DISPATCH,
                                       countriesOnly')} :
                  /\ containers' = pg.cs
                  /\ labels' = pg.labels
            /\ phase' = "settled"
            /\ outcome' = "dispatched"
    /\ UNCHANGED <<bundle, raw, countries, worldOnly, env>>

\* second loader of part_003 (top-10 chart)
ThenTop10 ==
    /\ bundle = "part_003_top10"
    /\ phase = "fulfilled"
    /\ IF Len(raw) = 0
       THEN /\ phase' = "settled"
            /\ outcome' = "empty-csv"
            /\ UNCHANGED <<C, rows, countries, containers, calls>>
       ELSE /\ C' = detectColumnsFirst(ObjectKeys(raw[1]))
            /\ rows' = Map(raw, LAMBDA r : mapRowGuarded(r, C'))
            /\ countries' = SelectSeq(rows', isCountry)
            /\ calls' = TOP10_DISPATCH
            /\ containers' = render(containers, TOP10_DISPATCH)
            /\ phase' = "settled"
            /\ outcome' = "dispatched"
    /\ UNCHANGED <<bundle, raw, worldOnly, countriesOnly, labels, env>>

(***************************************************************************)
(* catch-callbacks                                                         *)
(***************************************************************************)
\* main bundle: the same message in every container
CatchMain ==
    /\ bundle = "main"
    /\ phase = "rejected"
    /\ containers' = alertAll(containers, ALL_VIZ_SELECTORS, MSG_FAILED)
    /\ phase' = "settled"
    /\ UNCHANGED <<bundle, raw, outcome, C, rows, countries, worldOnly, countriesOnly, calls,
                   labels, env>>

\* first bundle
CatchFirst ==
    /\ bundle = "first"
    /\ phase = "rejected"
    /\ containers' = alertAll(alertIn(containers, "#bar-top10", MSG_FAILED_FIRST_TOP10),
                              Tail(FIRST_SELECTORS), MSG_FAILED_FIRST)
    /\ phase' = "settled"
    /\ UNCHANGED <<bundle, raw, outcome, C, rows, countries, worldOnly, countriesOnly, calls,
                   labels, env>>

\* part_000, part_003: console.error only.  part_002 has no catch: its
\* rejection stays unhandled.
CatchLog ==
    /\ bundle \in {"part_000", "part_003", "part_003_top10"}
    /\ phase = "rejected"
    /\ phase' = "settled"
    /\ UNCHANGED <<bundle, raw, outcome, C, rows, countries, worldOnly, countriesOnly,
                   containers, calls, labels, env>>

Next ==
    \/ Resolve
    \/ Reject
    \/ ThenMain
    \/ ThenFirst
    \/ ThenPart000
    \/ ThenPart002
    \/ ThenTop10
    \/ CatchMain
    \/ CatchFirst
    \/ CatchLog

Spec == Init /\ [][Next]_vars

(***************************************************************************)
(* Renderers called on prepared data                                       *)
(*                                                                         *)
(* RenderSpec starts from a page of the main bundle and a prepared data    *)
(* set, and calls the renderers and alertIn on the containers of the page  *)
(* any number of times, in any order.                                      *)
(***************************************************************************)
\* 'SDN'
V_SDN ==
    <<"S", "D", "N">>
\* 'MEX'
V_MEX ==
    <<"M", "E", "X">>
\* 'PSE'
V_PSE ==
    <<"P", "S", "E">>
\* 'BFA'
V_BFA ==
    <<"B", "F", "A">>
\* 'Syria'
V_Syria ==
    <<"S", "y", "r", "i", "a">>
\* 'SYR'
V_SYR ==
    <<"S", "Y", "R">>
\* 'Yemen'
V_Yemen ==
    <<"Y", "e", "m", "e", "n">>
\* 'YEM'
V_YEM ==
    <<"Y", "E", "M">>
\* 'Mali'
V_Mali ==
    <<"M", "a", "l", "i">>
\* 'MLI'
V_MLI ==
    <<"M", "L", "I">>
\* 'Chad'
V_Chad ==
    <<"C", "h", "a", "d">>
\* 'TCD'
V_TCD ==
    <<"T", "C", "D">>
\* 'Iraq'
V_Iraq ==
    <<"I", "r", "a", "q">>
\* 'IRQ'
V_IRQ ==
    <<"I", "R", "Q">>
\* 'Niger'
V_Niger ==
    <<"N", "i", "g", "e", "r">>
\* 'NER'
V_NER ==
    <<"N", "E", "R">>
\* 'Haiti'
V_Haiti ==
    <<"H", "a", "i", "t", "i">>
\* 'HTI'
V_HTI ==
    <<"H", "T", "I">>
\* 'India'
V_India ==
    <<"I", "n", "d", "i", "a">>
\* 'IND'
V_IND ==
    <<"I", "N", "D">>
\* 'Libya'
V_Libya ==
    <<"L", "i", "b", "y", "a">>
\* 'LBY'
V_LBY ==
    <<"L", "B", "Y">>

\* the record mapRow returns for a row with these cells
Rec(entity, code, year, counts) ==
    withTotalAndIso3(
        ("entity" :> entity) @@ ("code" :> code) @@ ("year" :> year) @@
        ("Interstate" :> counts[1]) @@ ("Intrastate" :> counts[2]) @@
        ("Extrasystemic" :> counts[3]) @@ ("Non-state" :> counts[4]) @@
        ("One-sided" :> counts[5]))

Country(name, code, counts) == Rec(Str(name), Str(code), Num(SNAPSHOT_YEAR), counts)

\* the record of the spec's scenario
UkraineRecord == Country(V_Ukraine, V_UKR, <<0, 50000, 0, 0, 100>>)

\* the records of the model: twelve countries with a positive total in the
\* snapshot year, two of the World, and records of another year, without a
\* year, without a code, with a zero total and with a negative count
POOL ==
    <<UkraineRecord,
      Country(V_Sudan, V_SDN, <<0, 4, 0, 1, 2>>),
      Rec(Str(S_World), Str(V_OWID_WRL), Num(SNAPSHOT_YEAR), <<1, 4, 0, 2, 3>>),
      Country(V_Mexico, V_MEX, <<0, 0, 0, 4, 0>>),
      Country(V_Palestine, V_PSE, <<3, 0, 0, 0, 1>>),
      Country(V_BurkinaFaso, V_BFA, <<0, 2, 0, 0, 2>>),
      Country(V_Syria, V_SYR, <<0, 3, 0, 0, 0>>),
      Country(V_Yemen, V_YEM, <<0, 1, 0, 0, 0>>),
      Country(V_Mali, V_MLI, <<0, 2, 0, 1, 1>>),
      Country(V_Chad, V_TCD, <<0, 0, 0, 0, 0>>),
      Country(V_Iraq, V_IRQ, <<0, 1, 0, 0, 1>>),
      Country(V_Niger, V_NER, <<0, 1, 0, 1, 0>>),
      Country(V_Haiti, V_HTI, <<0, 0, 0, 3, 0>>),
      Country(V_India, V_IND, <<0, 2, 0, 0, 0>>),
      Rec(Str(V_Libya), Str(V_LBY), Num(SNAPSHOT_YEAR - 1), <<0, 1, 0, 1, 0>>),
      Rec(Str(S_World), Str(V_OWID_WRL), Num(SNAPSHOT_YEAR - 1), <<0, 1, 0, 1, 1>>),
      Rec(Str(V_Europe), Null, Num(SNAPSHOT_YEAR), <<0, 4, 0, 0, 1>>),
      Rec(Str(V_Ukraine), Str(V_UKR), NaN, <<0, 1, 0, 0, 0>>),
      Country(V_Mexico, V_MEX, <<0, 0 - 1, 0, 0, 2>>)>>

\* the data sets: the first records of the pool, or its last ones
DataSets ==
    {SubSeq(POOL, 1, j) : j \in {0, 1, 2, 3, 7, 9, 14, Len(POOL)}}
    \cup {SubSeq(POOL, i, Len(POOL)) : i \in {15, 17}}

\* the calls of the renderers, each on its own container
RENDER_CALLS == Range(MAIN_DISPATCH) \cup {Call("drawNetwork", "#network", "countries")}

\* the bundles whose renderers are called, and the calls of each
RenderBundles == {"main", "part_002"}
RenderCalls(b) == IF b = "main" THEN RENDER_CALLS ELSE Range(PART_002_DISPATCH)

\* the tooltip divs a page may collect in its body
MaxTips == 2

\* the pages: two of the fourteen containers, side by side in the document
RenderPages ==
    {{ALL_VIZ_SELECTORS[2 * i - 1], ALL_VIZ_SELECTORS[2 * i]} :
        i \in 1..(Len(ALL_VIZ_SELECTORS) \div 2)}
RenderPagesOf(b) ==
    IF b = "main" THEN RenderPages
    ELSE {{PART_002_DISPATCH[i].sel : i \in DOMAIN PART_002_DISPATCH}}

RenderEnvs ==
    {withRandom(e, NoRandom) :
        e \in {[geo |-> "ok", sankey |-> TRUE], [geo |-> "nomatch", sankey |-> TRUE],
               [geo |-> "broken", sankey |-> TRUE], [geo |-> "invalid", sankey |-> FALSE]}}

\* what Math.random() may return during the call c
RandomsOf(c, data, year) ==
    IF c.fn = "drawBoxplot" /\ drawsOutliers(data, year) THEN Randoms ELSE {NoRandom}

RenderYears == {SNAPSHOT_YEAR - 1, SNAPSHOT_YEAR}
RenderYearsOf(b) == IF b = "main" THEN RenderYears ELSE {SNAPSHOT_YEAR}

\* the renderer of the call c is called on the page
invokeOn(b, pg, c, data, e, y) ==
    IF b = "main" THEN invoke(pg, c, data, e, y)
    ELSE invoke002(pg, c, data.countriesOnly)

\* the last call made on every container, the latest call last
remember(done, entry) == Append(SelectSeq(done, LAMBDA c : c.sel # entry.sel), entry)

\* whether the last call on the container was this very call
repeated(done, c, y) ==
    \E i \in DOMAIN done : done[i].fn = c.fn /\ done[i].sel = c.sel /\ done[i].year = y

InitRender ==
    /\ bundle \in RenderBundles
    /\ phase = "settled"
    /\ raw = <<>>
    /\ outcome = "prepared"
    /\ C = NoColumns
    /\ rows \in DataSets
    /\ countries = IF bundle = "main" THEN SelectSeq(rows, isCountry) ELSE <<>>
    /\ worldOnly = IF bundle = "main" THEN SelectSeq(rows, isWorld) ELSE <<>>
    /\ countriesOnly = IF bundle = "main" THEN <<>>
                       ELSE SelectSeq(rows, LAMBDA d : isISO3(d["code"]))
    /\ \E page \in RenderPagesOf(bundle) : containers = [sel \in page |-> Empty]
    /\ calls = <<>>
    /\ labels = [id \in Labels(bundle) |-> 0]
    /\ env \in IF bundle = "main" THEN RenderEnvs ELSE {NoEnv}

\* a renderer is called on its container
Redraw ==
    \E c \in RenderCalls(bundle), y \in RenderYearsOf(bundle) :
        /\ c.sel \in DOMAIN containers
        /\ \E random \in RandomsOf(c, countries, y) :
           \E pg \in {invokeOn(bundle, Page(containers, labels), c,
                               [countries |-> countries, worldOnly |-> worldOnly,
                                countriesOnly |-> countriesOnly],
                               withRandom(env, random), y)} :
              /\ "body" \in DOMAIN pg.labels => pg.labels["body"] <= MaxTips
              /\ containers' = pg.cs
              /\ labels' = pg.labels
              /\ calls' = remember(calls, [fn |-> c.fn, sel |-> c.sel, data |-> c.data,
                                           year |-> y, again |-> repeated(calls, c, y),
                                           threw |-> pg.threw, random |-> random])
        /\ countries' = IF bundle = "main" /\ c.data = "countries"
                        THEN argumentAfter(countries, ARRAY_OPS[c.fn]) ELSE countries
        /\ worldOnly' = IF bundle = "main" /\ c.data = "worldOnly"
                        THEN argumentAfter(worldOnly, ARRAY_OPS[c.fn]) ELSE worldOnly
        /\ UNCHANGED <<bundle, phase, raw, outcome, C, rows, countriesOnly, env>>

\* alertIn is called on a container
Notify ==
    \E sel \in DOMAIN containers, msg \in {MSG_FAILED} :
        /\ containers' = alertIn(containers, sel, msg)
        /\ calls' = remember(calls, [fn |-> "alertIn", sel |-> sel, data |-> msg,
                                     year |-> 0,
                                     again |-> repeated(calls, [fn |-> "alertIn", sel |-> sel], 0),
                                     threw |-> FALSE, random |-> NoRandom])
        /\ UNCHANGED <<bundle, phase, raw, outcome, C, rows, countries, worldOnly,
                       countriesOnly, labels, env>>

NextRender ==
    \/ Redraw
    \/ Notify

RenderSpec == InitRender /\ [][NextRender]_vars

\* The waffle charts, drawn for every World record whose five counts are
\* at most MaxCount
MaxCount == 2
WorldRecords ==
    {Rec(Str(S_World), Str(V_OWID_WRL), Num(SNAPSHOT_YEAR), counts) :
        counts \in [1..5 -> 0..MaxCount]}

\* the orders the rounding of the divisions may give equal fractional parts
TieOrders == {<<1, 2, 3, 4, 5>>, <<5, 4, 3, 2, 1>>, <<2, 1, 4, 3, 5>>}

InitWaffle ==
    /\ bundle \in {"main", "first"}
    /\ phase = "settled"
    /\ raw = <<>>
    /\ outcome = "prepared"
    /\ C = NoColumns
    /\ \E w \in WorldRecords : rows = <<w>>
    /\ countries = <<>>
    /\ worldOnly = rows
    /\ countriesOnly = <<>>
    /\ containers = [sel \in {"#waffle"} |-> Empty]
    /\ calls = <<>>
    /\ labels = [id \in Labels(bundle) |-> 0]
    /\ env = NoEnv

\* drawWaffle of the main bundle is called
Waffle ==
    \E y \in RenderYears :
        /\ bundle = "main"
        /\ \E pg \in {drawWaffle(Page(containers, labels), "#waffle", worldOnly, y)} :
              /\ containers' = pg.cs
              /\ labels' = pg.labels
              /\ calls' = <<[fn |-> "drawWaffle", sel |-> "#waffle", year |-> y,
                             threw |-> pg.threw, ties |-> <<>>]>>
        /\ UNCHANGED <<bundle, phase, raw, outcome, C, rows, countries, worldOnly,
                       countriesOnly, env>>

\* drawWaffle of the first bundle is called
WaffleFirst ==
    \E y \in RenderYears, ties \in TieOrders :
        /\ bundle = "first"
        /\ \E pg \in {drawWaffleFirst(Page(containers, labels), "#waffle", worldOnly, y, ties)} :
              /\ containers' = pg.cs
              /\ labels' = pg.labels
              /\ calls' = <<[fn |-> "drawWaffle", sel |-> "#waffle", year |-> y,
                             threw |-> pg.threw, ties |-> ties]>>
        /\ UNCHANGED <<bundle, phase, raw, outcome, C, rows, countries, worldOnly,
                       countriesOnly, env>>

NextWaffle ==
    \/ Waffle
    \/ WaffleFirst

WaffleSpec == InitWaffle /\ [][NextWaffle]_vars

\* The network chart and the events on its nodes and on its Reset button.
\* calls[n] is the last of the events drawn, drag, dblclick and reset that
\* reached the node n.
PinData == {SubSeq(POOL, 1, j) : j \in {0, 2, 5}}
\* where a node or the pointer may be
Points == {<<0, 0>>, <<1, 2>>}

InitPin ==
    /\ bundle = "main"
    /\ phase = "settled"
    /\ raw = <<>>
    /\ outcome = "prepared"
    /\ C = NoColumns
    /\ rows \in PinData
    /\ countries = SelectSeq(rows, isCountry)
    /\ worldOnly = SelectSeq(rows, isWorld)
    /\ countriesOnly = <<>>
    /\ containers = [sel \in {"#network"} |-> Empty]
    /\ calls = <<>>
    /\ labels = [id \in Labels(bundle) |-> 0]
    /\ env = NoEnv

HasNetwork ==
    /\ Len(containers["#network"]) >= 2
    /\ containers["#network"][2].kind = "svg"
Marks == containers["#network"][2].marks
withMarks(m) == [containers EXCEPT !["#network"][2].marks = m]
eventOn(nodes, fn) == [i \in DOMAIN calls |-> IF i \in nodes THEN [fn |-> fn] ELSE calls[i]]

\* drawNetwork is called
DrawNetwork ==
    \E y \in RenderYears :
        \E pg \in {drawNetwork(Page(containers, labels), "#network", countries, y)} :
            /\ containers' = pg.cs
            /\ labels' = pg.labels
            /\ calls' = IF Len(pg.cs["#network"]) >= 2
                        THEN [i \in DOMAIN pg.cs["#network"][2].marks.nodes |-> [fn |-> "drawn"]]
                        ELSE <<>>
            /\ UNCHANGED <<bundle, phase, raw, outcome, C, rows, countries, worldOnly,
                           countriesOnly, env>>

\* the pointer goes down on a node that is at some point
DragStart ==
    /\ HasNetwork /\ Marks.active = 0
    /\ \E n \in DOMAIN Marks.nodes, at \in Points :
          /\ containers' = withMarks(dragStart(Marks, n, at))
          /\ calls' = eventOn({n}, "drag")
    /\ UNCHANGED <<bundle, phase, raw, outcome, C, rows, countries, worldOnly,
                   countriesOnly, labels, env>>

\* the pointer moves during the gesture
DragMove ==
    /\ HasNetwork /\ Marks.active # 0
    /\ \E at \in Points :
          /\ containers' = withMarks(dragMove(Marks, Marks.active, at))
          /\ calls' = eventOn({Marks.active}, "drag")
    /\ UNCHANGED <<bundle, phase, raw, outcome, C, rows, countries, worldOnly,
                   countriesOnly, labels, env>>

\* the pointer goes up
DragEnd ==
    /\ HasNetwork /\ Marks.active # 0
    /\ containers' = withMarks(dragEnd(Marks, Marks.active))
    /\ UNCHANGED <<bundle, phase, raw, outcome, C, rows, countries, worldOnly,
                   countriesOnly, calls, labels, env>>

\* a node is double-clicked
DblClick ==
    /\ HasNetwork /\ Marks.active = 0
    /\ \E n \in DOMAIN Marks.nodes :
          /\ containers' = withMarks(dblclick(Marks, n))
          /\ calls' = eventOn({n}, "dblclick")
    /\ UNCHANGED <<bundle, phase, raw, outcome, C, rows, countries, worldOnly,
                   countriesOnly, labels, env>>

\* the Reset layout button is clicked
ResetLayout ==
    /\ HasNetwork /\ Marks.active = 0
    /\ containers' = withMarks(resetLayout(Marks))
    /\ calls' = eventOn(DOMAIN calls, "reset")
    /\ UNCHANGED <<bundle, phase, raw, outcome, C, rows, countries, worldOnly,
                   countriesOnly, labels, env>>

NextPin ==
    \/ DrawNetwork
    \/ DragStart
    \/ DragMove
    \/ DragEnd
    \/ DblClick
    \/ ResetLayout

PinSpec == InitPin /\ [][NextPin]_vars

(***************************************************************************)
(* Properties                                                              *)
(***************************************************************************)
\* the then-callback got as far as detecting the columns
Detected == outcome \in {"missing-columns", "dispatched"}

\* the header row the then-callback read
Headers == ObjectKeys(raw[1])

\* the field of the detected columns that holds a conflict type's header
FieldOf(k) ==
    CASE k = "Interstate"    -> "interstate"
      [] k = "Intrastate"    -> "intrastate"
      [] k = "Extrasystemic" -> "extrasystemic"
      [] k = "Non-state"     -> "nonstate"
      [] k = "One-sided"     -> "onesided"

TypeKeys == Range(TYPE_ORDER)

InSeq(r, seq) == \E i \in DOMAIN seq : seq[i] = r

\* C1: in every variant, every canonical record has total equal to the sum
\* of its five type counts.
C1_TotalIsSum ==
    \A i \in DOMAIN rows :
        rows[i]["total"] = rows[i]["Interstate"] + rows[i]["Intrastate"]
                           + rows[i]["Extrasystemic"] + rows[i]["Non-state"]
                           + rows[i]["One-sided"]

\* a main-bundle record with an odd cell and a total that is not zero
C1_Witness ==
    /\ bundle = "main"
    /\ \E i \in DOMAIN rows :
          /\ rows[i]["total"] > 0
          /\ \E k \in TypeKeys : rows[i][k] = 0
          /\ \E k \in TypeKeys : rows[i][k] > 1

\* C2: in the main bundle a record is in countries exactly when its code is
\* a string of three upper-case ASCII letters and its entity is not "World";
\* a record with code "OWID_WRL" is never in countries.
C2_CountriesIffIso3NotWorld ==
    bundle = "main" =>
        /\ \A i \in DOMAIN rows :
              InSeq(rows[i], countries) <=>
                  /\ rows[i]["code"].t = "string"
                  /\ rows[i]["code"].s \in [1..3 -> UpperSet]
                  /\ rows[i]["entity"] # Str(S_World)
        /\ \A i \in DOMAIN countries : countries[i]["code"] # Str(V_OWID_WRL)
        /\ \A i \in DOMAIN countries : InSeq(countries[i], rows)

\* the main bundle kept a World record with a three-letter code out of countries
C2_Witness ==
    /\ bundle = "main"
    /\ outcome = "dispatched"
    /\ \E i \in DOMAIN rows :
          /\ rows[i]["code"] = Str(V_WLD)
          /\ ~InSeq(rows[i], countries)

\* C3: in every variant a record whose entity is "World" is never classified
\* as a country, whatever its code.
C3_WorldNeverCountry ==
    /\ \A i \in DOMAIN countries : countries[i]["entity"] # Str(S_World)
    /\ \A i \in DOMAIN countriesOnly : countriesOnly[i]["entity"] # Str(S_World)

\* C4 as claimed: every record of the main bundle is in exactly one of
\* countries and worldOnly.
C4_Partition ==
    (bundle = "main" /\ outcome = "dispatched") =>
        \A i \in DOMAIN rows : InSeq(rows[i], countries) # InSeq(rows[i], worldOnly)

\* C4 amended: no record is in both subsets; worldOnly holds exactly the
\* records whose entity is "World", and a record is in neither subset exactly
\* when its entity is not "World" and its code is not an ISO-3 code.
C4_DisjointWorldAndCountries ==
    (bundle = "main" /\ outcome = "dispatched") =>
        \A i \in DOMAIN rows :
            LET r         == rows[i]
                inCountry == InSeq(r, countries)
                inWorld   == InSeq(r, worldOnly)
                iso3      == r["code"].t = "string" /\ r["code"].s \in [1..3 -> UpperSet]
            IN  /\ ~(inCountry /\ inWorld)
                /\ inWorld <=> r["entity"] = Str(S_World)
                /\ (~inCountry /\ ~inWorld) <=> (r["entity"] # Str(S_World) /\ ~iso3)

\* a regional rollup with an empty code is in neither subset
C4_Witness ==
    /\ bundle = "main"
    /\ outcome = "dispatched"
    /\ \E i \in DOMAIN rows :
          /\ rows[i]["entity"] = Str(V_Europe)
          /\ rows[i]["code"] = Null
          /\ ~InSeq(rows[i], countries)
          /\ ~InSeq(rows[i], worldOnly)

\* C5: in the main bundle, a conflict type whose field detectColumns resolves
\* to not-found has count 0 in every record.
C5_UnresolvedTypeIsZero ==
    (bundle = "main" /\ outcome = "dispatched") =>
        \A k \in TypeKeys :
            C[FieldOf(k)] = Null => \A i \in DOMAIN rows : rows[i][k] = 0

\* the name of a conflict type as a header may spell it, lower-cased
TypeSubstrings(k) ==
    CASE k = "Interstate"    -> {Tail(K_sp_interstate)}
      [] k = "Intrastate"    -> {Tail(K_sp_intrastate)}
      [] k = "Extrasystemic" -> {Tail(K_sp_extrasystemic)}
      [] k = "Non-state"     -> {Tail(K_sp_non_state), SubSeq(K_sp_nonstate_conflict, 2, 10)}
      [] k = "One-sided"     -> {Tail(K_sp_one_sided), SubSeq(K_sp_onesided_violence, 2, 10)}

NeedlesOf(b, k) ==
    CASE k = "Interstate"    -> {K_ct_interstate}
                                \cup (IF b = "main" THEN {K_sp_interstate} ELSE {})
      [] k = "Intrastate"    -> {K_ct_intrastate}
                                \cup (IF b = "main" THEN {K_sp_intrastate} ELSE {})
      [] k = "Extrasystemic" -> {K_ct_extrasystemic}
                                \cup (IF b = "main" THEN {K_sp_extrasystemic} ELSE {})
      [] k = "Non-state"     -> {K_ct_nonstate}
                                \cup (IF b = "main"
                                      THEN {K_sp_non_state, K_sp_nonstate_conflict} ELSE {})
      [] k = "One-sided"     -> {K_ct_onesided}
                                \cup (IF b = "main"
                                      THEN {K_sp_onesided_violence, K_sp_one_sided} ELSE {})

\* the text of a header the needles are matched against
Matched(b, h) == IF b = "main" THEN norm(h) ELSE toLowerCase(h)

ContainsAny(text, needles) == \E nd \in needles : includes(text, nd)

\* the texts of the headers, in the order of the header row
RECURSIVE MatchedAll(_, _)
MatchedAll(b, hs) ==
    IF hs = <<>> THEN <<>> ELSE <<Matched(b, Head(hs))>> \o MatchedAll(b, Tail(hs))

\* the positions of the texts that contain a needle of the type
Matches(texts, b, k) ==
    {i \in DOMAIN texts : ContainsAny(texts[i], NeedlesOf(b, k))}

\* col is not-found when no position matches, else the header at the first one
ResolvedToFirst(col, M) ==
    IF M = {} THEN Falsy(col) ELSE col = Str(Headers[MinOrZero(M)])

PositionIn(col, headers) ==
    IF IsStr(col) THEN MinOrZero({i \in DOMAIN headers : headers[i] = col.s}) ELSE 0

\* two header rows that differ only in letter case and in the length of
\* whitespace runs
SameUpToCaseAndSpacing(h1, h2) ==
    /\ Len(h1) = Len(h2)
    /\ \A i \in DOMAIN h1 :
          trim(collapseSpaces(toLowerCase(h1[i]))) = trim(collapseSpaces(toLowerCase(h2[i])))

Fields == DOMAIN NoColumns

\* C7: detectColumns of the main and of the first bundle resolves every field
\* to the same position on two header rows that differ only in letter case
\* and whitespace-run length.
C7_CaseAndSpacingInsensitive ==
    (bundle \in {"main", "first"} /\ Detected) =>
        \A hr \in HeaderRows :
            SameUpToCaseAndSpacing(Headers, Names(hr)) =>
                \A f \in Fields :
                    PositionIn((IF bundle = "main" THEN detectColumns(Names(hr))
                                ELSE detectColumnsFirst(Names(hr)))[f], Names(hr))
                    = PositionIn(C[f], Headers)

\* C8: in the main bundle, when the intrastate, non-state or one-sided column
\* is not resolved, no renderer is invoked, no record is built and every
\* container of the page shows the missing-columns message.
C8_MissingRequiredStops ==
    (/\ bundle = "main"
     /\ Detected
     /\ \E f \in {"intrastate", "nonstate", "onesided"} : C[f] = Null)
    => /\ calls = <<>>
       /\ rows = <<>> /\ countries = <<>> /\ worldOnly = <<>>
       /\ phase = "settled"
       /\ \A sel \in DOMAIN containers : containers[sel] = Alert(MSG_MISSING)

\* the main bundle stopped on a header row that has no intrastate column
C8_Witness ==
    /\ bundle = "main"
    /\ outcome = "missing-columns"
    /\ C.intrastate = Null
    /\ C.nonstate # Null
    /\ \A sel \in Range(ALL_VIZ_SELECTORS) :
          sel \in DOMAIN containers /\ containers[sel] = Alert(MSG_MISSING)

\* C9: in the main bundle, when no header of the row resolves to entity, code
\* or year, the pipeline stops with the missing-columns message: no record is
\* built and no renderer is invoked.
C9_MissingIdentityStops ==
    (/\ bundle = "main"
     /\ Detected
     /\ \E kw \in {K_entity, K_code, K_year} :
           \A i \in DOMAIN Headers : ~includes(norm(Headers[i]), kw))
    => /\ outcome = "missing-columns"
       /\ rows = <<>>
       /\ calls = <<>>

\* the cell mapRow reads for a conflict type
TypeCell(d, k) == Get(d, C[FieldOf(k)])

\* C10: every conflict-type cell that is absent, empty or not a number
\* yields a count of exactly 0.
C10_NonNumberIsZero ==
    (bundle = "main" /\ outcome = "dispatched") =>
        \A i \in DOMAIN rows : \A k \in TypeKeys :
            (TypeCell(raw[i], k).t # "number" \/ IsNaN(TypeCell(raw[i], k)))
            => rows[i][k] = 0

\* the records exist: the then-callback ran raw.map
Mapped == outcome = "dispatched"

\* C11: every canonical record has five type counts that are all
\* non-negative, whatever the cells of the raw row hold.
C11_CountsNonNegative ==
    \A i \in DOMAIN rows : \A k \in TypeKeys : rows[i][k] >= 0

\* text that is not the decimal notation of a number
NonNumericText(v) ==
    /\ IsStr(v)
    /\ trim(v.s) # <<>>
    /\ ~IsDigits(trim(v.s))
    /\ ~(Head(trim(v.s)) \in {"-", "+"} /\ IsDigits(Tail(trim(v.s))))

\* the years a renderer can be asked for
Years == {0, SNAPSHOT_YEAR - 1, SNAPSHOT_YEAR}

\* the subsets the renderers select with a year === Y filter
YearSubsets(data, Y) ==
    {positiveInYear(data, Y), focusRows(data, Y, FOCUS_COUNTRIES), worldRowsOf(data, Y),
     positiveIsoInYear(data, Y), isoInYear(data, Y)}

\* C12: a raw row whose year cell is non-numeric text yields a record whose
\* year is strictly unequal to every integer year, and the record is in no
\* subset that a renderer selects with a year === Y filter.
C12_NonNumericYearExcluded ==
    Mapped =>
        \A i \in DOMAIN rows :
            NonNumericText(Get(raw[i], C.year)) =>
                \A Y \in Years :
                    /\ ~StrictEquals(rows[i]["year"], Num(Y))
                    /\ \A S \in YearSubsets(rows, Y) : ~InSeq(rows[i], S)

\* a row with the year cell "2023*" was mapped and the renderers were called
C12_Witness ==
    /\ bundle = "main"
    /\ Mapped
    /\ calls # <<>>
    /\ \E i \in DOMAIN rows :
          /\ Get(raw[i], C.year) = Str(V_2023star)
          /\ IsNaN(rows[i]["year"])
          /\ rows[i]["total"] > 0
\* how many times a record occurs in a sequence
Count(seq, x) == Cardinality({i \in DOMAIN seq : seq[i] = x})

\* top is a ranking of at most N records of data with year Y and a positive
\* total, by non-increasing total, that leaves out no record of year Y with a
\* total greater than one it holds
IsTopOf(top, data, Y, N) ==
    /\ Len(top) <= N
    /\ \A i \in DOMAIN top :
          /\ inYear(top[i], Y)
          /\ top[i]["total"] > 0
          /\ Count(top, top[i]) <= Count(data, top[i])
    /\ \A i \in 1..(Len(top) - 1) : top[i]["total"] >= top[i + 1]["total"]
    /\ \A j \in DOMAIN data :
          (inYear(data[j], Y) /\ Count(top, data[j]) < Count(data, data[j]))
              => \A i \in DOMAIN top : data[j]["total"] <= top[i]["total"]

\* the values of N the ranking is asked for
TopNs == {0, 1, 3, 12, 18}

\* the last call on a container was made by the renderer fn
LastCalls(fn) == {i \in DOMAIN calls : calls[i].fn = fn}

\* the container shows a chart: its first element is the svg
ShowsChart(sel) == containers[sel] # <<>> /\ containers[sel][1].kind = "svg"

\* C13: the rows drawn by drawTop10Bar, and returned by topCountriesByTotal
\* with N, are at most 10 (N) records of year Y with a positive total, in
\* non-increasing order of total, and no omitted record of year Y has a
\* greater total than a drawn one; the record of Ukraine with total 50100 is
\* drawn when fewer than 10 other records of 2023 exceed it.
C13_Top10Ranking ==
    /\ \A i \in LastCalls("drawTop10Bar") :
          /\ ShowsChart(calls[i].sel) =>
                IsTopOf(containers[calls[i].sel][1].marks, countries, calls[i].year, 10)
          /\ ( /\ calls[i].year = SNAPSHOT_YEAR
               /\ InSeq(UkraineRecord, countries)
               /\ Cardinality({j \in DOMAIN countries :
                       /\ inYear(countries[j], SNAPSHOT_YEAR)
                       /\ countries[j]["total"] > UkraineRecord["total"]}) < 10 )
              => /\ ShowsChart(calls[i].sel)
                 /\ \E k \in DOMAIN containers[calls[i].sel][1].marks :
                       /\ containers[calls[i].sel][1].marks[k] = UkraineRecord
                       /\ containers[calls[i].sel][1].marks[k]["total"] = 50100
    /\ \A N \in TopNs, Y \in RenderYears :
          IsTopOf(topCountriesByTotal(countries, Y, N), countries, Y, N)

\* drawTop10Bar drew ten of twelve eligible countries, Ukraine among them
C13_Witness ==
    \E i \in LastCalls("drawTop10Bar") :
        /\ calls[i].year = SNAPSHOT_YEAR
        /\ Len(positiveInYear(countries, SNAPSHOT_YEAR)) > 10
        /\ ShowsChart(calls[i].sel)
        /\ Len(containers[calls[i].sel][1].marks) = 10
        /\ containers[calls[i].sel][1].marks[1] = UkraineRecord
\* the page with every container empty
BlankPage == Page([sel \in DOMAIN containers |-> Empty], [id \in DOMAIN labels |-> 0])

\* what the call c of the record of calls writes into its container when it
\* is the only call ever made on the page
Alone(c) ==
    IF c.fn = "alertIn" THEN alertIn(BlankPage.cs, c.sel, c.data)[c.sel]
    ELSE invokeOn(bundle, BlankPage, c,
                  [countries |-> countries, worldOnly |-> worldOnly,
                   countriesOnly |-> countriesOnly],
                  withRandom(env, c.random), c.year).cs[c.sel]

\* C14: redraw is a full replace.  After any sequence of calls of renderers
\* and of alertIn, every container holds exactly the elements that the last
\* call made on it produces on an empty container; in particular a call
\* repeated with the same arguments leaves what one call leaves.
C14_RedrawReplaces ==
    \A i \in DOMAIN calls : containers[calls[i].sel] = Alone(calls[i])

\* a renderer was called twice in a row with the same arguments and its
\* container holds one chart and one legend
C14_Witness ==
    \E i \in DOMAIN calls :
        /\ calls[i].again
        /\ calls[i].fn = "drawGroupedByType"
        /\ containers[calls[i].sel] =
              <<Svg("drawGroupedByType",
                    tidyGroups(focusRows(countries, calls[i].year, FOCUS_COUNTRIES),
                               FOCUS_COUNTRIES)),
                Legend>>
\* the data the call c is given
DataOf(c) == IF c.data = "worldOnly" THEN worldOnly ELSE countries

\* no record of the data given to the call c is one its renderer draws
NothingToDraw(c) ==
    CASE c.fn \in {"drawTop10Bar", "drawHistogram", "drawSankey", "drawNetwork"} ->
            ~\E j \in DOMAIN DataOf(c) :
                inYear(DataOf(c)[j], c.year) /\ DataOf(c)[j]["total"] > 0
      [] c.fn = "drawGroupedByType" ->
            ~\E j \in DOMAIN DataOf(c) :
                /\ inYear(DataOf(c)[j], c.year)
                /\ DataOf(c)[j]["entity"] \in Range(FOCUS_COUNTRIES)
      [] c.fn \in {"drawWorldHeatmap", "drawStacked100", "drawTimeSeries"} ->
            DataOf(c) = <<>>
      [] c.fn = "drawWaffle" ->
            ~\E j \in DOMAIN DataOf(c) : inYear(DataOf(c)[j], c.year)
      [] c.fn \in {"drawViolin", "drawBoxplot", "drawChoropleth", "drawProportionalMap",
                   "drawContourMap"} ->
            ~\E j \in DOMAIN DataOf(c) :
                /\ inYear(DataOf(c)[j], c.year)
                /\ isISO3(DataOf(c)[j]["code"])
                /\ DataOf(c)[j]["total"] > 0
      [] OTHER -> FALSE

\* the container holds one alert message and nothing else
OneAlert(sel) == Len(containers[sel]) = 1 /\ containers[sel][1].kind = "alert"

\* C15: when the subset a main-bundle renderer selects is empty, the renderer
\* draws no chart marks, leaves exactly one alert message in its container
\* and returns without raising an error.
C15_EmptySubsetAlerts ==
    \A i \in DOMAIN calls :
        NothingToDraw(calls[i]) => OneAlert(calls[i].sel) /\ ~calls[i].threw

\* drawTop10Bar was asked for a year of which the countries have no record,
\* the data holding records of another year
C15_Witness ==
    \E i \in LastCalls("drawTop10Bar") :
        /\ NothingToDraw(calls[i])
        /\ positiveInYear(countries, SNAPSHOT_YEAR) # <<>>
        /\ containers[calls[i].sel] = Alert(YearMsg("No country data for year ", calls[i].year))
\* C16: when the CSV or the GeoJSON file cannot be fetched or parsed, or the
\* CSV has no rows, no renderer is invoked and, once the top-level handler
\* has run, every container of ALL_VIZ_SELECTORS that the page has shows the
\* same failure message.
C16_LoadFailureEverywhere ==
    (bundle = "main" /\ outcome \in {"load-failed", "empty-csv"}) =>
        /\ calls = <<>>
        /\ phase \in {"rejected", "settled"}
        /\ phase = "rejected" => \A sel \in DOMAIN containers : containers[sel] = Empty
        /\ phase = "settled" =>
              \A i \in DOMAIN ALL_VIZ_SELECTORS :
                  ALL_VIZ_SELECTORS[i] \in DOMAIN containers =>
                      containers[ALL_VIZ_SELECTORS[i]] = Alert(MSG_FAILED)

\* the CSV had a header row and no data row, and the handler has run on a
\* page with all fourteen containers
C16_Witness ==
    /\ bundle = "main"
    /\ outcome = "empty-csv"
    /\ phase = "settled"
    /\ DOMAIN containers = Range(ALL_VIZ_SELECTORS)
    /\ \A sel \in DOMAIN containers : containers[sel] = Alert(MSG_FAILED)

\* the call c of the dispatch, made alone on the empty page with the data
\* of the load
AloneInDispatch(c) ==
    caught(invoke(BlankPage, c, [countries |-> countries, worldOnly |-> worldOnly],
                  env, SNAPSHOT_YEAR), c)

\* C17: when both files load, the CSV has rows and the required columns
\* resolve, the dispatcher invokes a defined routine for each chart kind,
\* the network chart into "#network" included, no error reaches the
\* top-level handler, and every container keeps its own renderer's output.
C17_DispatchCompletes ==
    (bundle = "main" /\ outcome = "dispatched") =>
        /\ phase = "settled"
        /\ \E i \in DOMAIN calls : calls[i].sel = "#network"
        /\ \A sel \in DOMAIN containers : containers[sel] # Alert(MSG_FAILED)

\* C18: the chart renders of one load are independent.  When a call of the
\* dispatch raises an error, the calls after it are still made and the
\* containers drawn by the other calls keep what was drawn.
C18_RendersIndependent ==
    (bundle = "main" /\ outcome = "dispatched") =>
        \A i \in DOMAIN MAIN_DISPATCH :
            /\ InSeq(MAIN_DISPATCH[i], calls)
            /\ (phase = "settled" /\ MAIN_DISPATCH[i].sel \in DOMAIN containers
                   /\ ~AloneInDispatch(MAIN_DISPATCH[i]).threw)
                  => containers[MAIN_DISPATCH[i].sel]
                       = AloneInDispatch(MAIN_DISPATCH[i]).cs[MAIN_DISPATCH[i].sel]

\* C19: nothing is written to the page before the load promise has settled.
C19_NoWriteBeforeLoad ==
    phase = "loading" =>
        /\ calls = <<>>
        /\ \A sel \in DOMAIN containers : containers[sel] = Empty
        /\ \A id \in DOMAIN labels : labels[id] = 0

\* the call c of the record of calls is made on the page
ApplyCall(pg, c) ==
    IF c.fn = "alertIn" THEN [pg EXCEPT !.cs = alertIn(@, c.sel, c.data)]
    ELSE invokeOn(bundle, pg, c,
                  [countries |-> countries, worldOnly |-> worldOnly,
                   countriesOnly |-> countriesOnly], withRandom(env, c.random), c.year)

\* the containers of a blank page after the call a and then the call b
InOrder(a, b) == ApplyCall(ApplyCall(BlankPage, a), b).cs

\* the step leaves every container but the one of the call it made as it was
OthersUnchanged ==
    calls' # <<>> =>
        \A s \in DOMAIN containers :
            s # calls'[Len(calls')].sel => containers'[s] = containers[s]

\* C20: each renderer owns its container exclusively.  A renderer (of the
\* main bundle or of part_002) or alertIn invoked on container S leaves the
\* content of every other chart container unchanged, so the content of the
\* containers after the calls is the same for both orders of the last calls
\* made on two containers, and a container nothing was called on stays empty.
C20_ExclusiveContainers ==
    /\ [](/\ \A i, j \in DOMAIN calls :
                i # j => /\ containers = InOrder(calls[i], calls[j])
                         /\ containers = InOrder(calls[j], calls[i])
          /\ \A s \in DOMAIN containers :
                (\A i \in DOMAIN calls : calls[i].sel # s) => containers[s] = Empty)
    /\ [][OthersUnchanged]_vars

\* two renderers drew their charts side by side, the second after the first:
\* the waffle (which also writes its year label) and the histogram of the main
\* bundle, or the two charts of part_002
C20_Witness ==
    /\ Len(calls) = 2
    /\ \/ /\ calls[1].fn = "drawWaffle" /\ calls[2].fn = "drawHistogram"
          /\ ShowsChart("#waffle") /\ ShowsChart("#histogram")
          /\ labels["#waffle-year"] = calls[1].year
       \/ /\ calls[1].fn = "drawGroupedBar" /\ calls[2].fn = "drawBar"
          /\ Len(containers[calls[1].sel]) = 4
          /\ Len(containers[calls[2].sel]) = 3
          /\ labels["body"] = MaxTips

\* the step called a renderer again with the arguments of the last call made
\* on its container
CalledAgain == calls' # <<>> /\ calls' # calls /\ calls'[Len(calls')].again

\* C21: renderers are pure functions of (container, data, options).  A
\* renderer invoked a second time with identical arguments leaves in its
\* container the very output the first invocation left (same marks with the
\* same attribute values), drawBoxplot included.
C21_RenderersPure ==
    [][CalledAgain =>
          containers'[calls'[Len(calls')].sel] = containers[calls'[Len(calls')].sel]]_vars

\* C22: canonical records are immutable after creation.  No call of a
\* renderer of the main bundle changes a field of a record, or the membership
\* or the order of the rows, countries or worldOnly arrays: the arrays hold
\* after every call what they held before it.
C22_RecordsImmutable ==
    [][rows' = rows /\ countries' = countries /\ worldOnly' = worldOnly]_vars

\* drawTop10Bar drew a chart whose bars are in another order than the
\* records of the array it was given, and the array is as the load left it
C22_Witness ==
    /\ bundle = "main"
    /\ \E i \in LastCalls("drawTop10Bar") :
          /\ ShowsChart(calls[i].sel)
          /\ containers[calls[i].sel][1].marks
                # slice(positiveInYear(countries, calls[i].year), 10)
    /\ countries = SelectSeq(rows, isCountry)

\* the squares of a conflict type in the waffle drawn in "#waffle"
WaffleDrawn ==
    /\ "#waffle" \in DOMAIN containers
    /\ calls # <<>>
    /\ calls[Len(calls)].fn = "drawWaffle"
    /\ containers["#waffle"] # Empty
    /\ containers["#waffle"][1].kind = "svg"
squaresOf(k) ==
    Len(SelectSeq(containers["#waffle"][1].marks, LAMBDA m : m = k))
World == Head(worldOnly)

\* C23: whenever drawWaffle of the main bundle draws a chart for a World
\* record of the requested year, the grid has exactly 100 squares
C23_MainWaffleHas100 ==
    (bundle = "main" /\ WaffleDrawn) => Len(containers["#waffle"][1].marks) = 100

\* the needles of a conflict-type field of the main bundle, in listed order
NeedleList(k) ==
    CASE k = "Interstate"    -> <<K_ct_interstate, K_sp_interstate>>
      [] k = "Intrastate"    -> <<K_ct_intrastate, K_sp_intrastate>>
      [] k = "Extrasystemic" -> <<K_ct_extrasystemic, K_sp_extrasystemic>>
      [] k = "Non-state"     -> <<K_ct_nonstate, K_sp_non_state, K_sp_nonstate_conflict>>
      [] k = "One-sided"     -> <<K_ct_onesided, K_sp_onesided_violence, K_sp_one_sided>>

\* the positions of the texts that contain the needle
HeadersWith(texts, nd) == {i \in DOMAIN texts : includes(texts[i], nd)}

\* col is the first header that contains the earliest needle some header contains
ResolvedByNeedleOrder(col, texts, needles) ==
    LET found == {a \in DOMAIN needles : HeadersWith(texts, needles[a]) # {}}
    IN  found # {} =>
            col = Str(Headers[MinOrZero(HeadersWith(texts, needles[MinOrZero(found)]))])

\* C24: for each conflict-type field of the main bundle, detectColumns
\* returns a header that matches the earliest needle matched by any header,
\* whatever the positions of the headers in the header row
C24_NeedleOrderWins ==
    (bundle = "main" /\ Detected) =>
        \E texts \in {MatchedAll(bundle, Headers)} :
            \A k \in TypeKeys :
                ResolvedByNeedleOrder(C[FieldOf(k)], texts, NeedleList(k))

\* the network drawn in "#network"
NetworkDrawn ==
    /\ "#network" \in DOMAIN containers
    /\ Len(containers["#network"]) >= 2
    /\ containers["#network"][2].kind = "svg"
Network == containers["#network"][2].marks

\* C26: after link selection every node of the network has at most TOP_K
\* incident links, every kept link joins two nodes of cosine similarity at
\* least 0.65, and no pair of nodes is linked more than once
C26_TopKLinksPerNode ==
    NetworkDrawn =>
        /\ \A n \in DOMAIN Network.nodes :
               Cardinality(linksByNode(Network.links, n)) <= TOP_K
        /\ \A p \in Network.links :
               p[1] < p[2] /\ similar(Network.nodes[p[1]], Network.nodes[p[2]])

\* the node has fx and fy set
Pinned(p) == p.fx # Null /\ p.fy # Null

\* C27: after any sequence of drag, double-click and Reset events, a node
\* of the network is pinned exactly when the last of these events that
\* reached it is a drag: a double-click unpins only its node, Reset unpins all
C27_PinnedIffDragged ==
    HasNetwork =>
        \A n \in DOMAIN Marks.nodes : Pinned(Marks.pins[n]) <=> calls[n].fn = "drag"

\* a node is unpinned by a double-click while another node stays pinned
C27_Witness ==
    /\ HasNetwork
    /\ \E n, k \in DOMAIN Marks.nodes :
          /\ calls[n].fn = "dblclick" /\ ~Pinned(Marks.pins[n])
          /\ calls[k].fn = "drag" /\ Pinned(Marks.pins[k])

\* the Sankey diagram drawn in "#sankey" for the year of the last call
SankeyDrawn ==
    /\ "#sankey" \in DOMAIN containers
    /\ containers["#sankey"] # Empty
    /\ containers["#sankey"][1].kind = "svg"
Sankey == containers["#sankey"][1].marks
SankeyYear == (CHOOSE c \in Range(calls) : c.sel = "#sankey").year
RECURSIVE sumValues(_)
sumValues(ls) == IF ls = <<>> THEN 0 ELSE Head(ls).value + sumValues(Tail(ls))

\* C29: the links leaving a type node sum to the positive counts of the
\* type over all country records of the year with a positive total; there
\* are at most ten country nodes, and "Other countries" comes last
C29_SankeyConservesFlows ==
    SankeyDrawn =>
        /\ \A j \in DOMAIN TYPE_ORDER :
               sumValues(SelectSeq(Sankey.links, LAMBDA l : l.type = TYPE_ORDER[j]))
               = sumFlows(positiveInYear(countries, SankeyYear), TYPE_ORDER[j])
        /\ Len(Sankey.top) <= 10
        /\ \A i \in DOMAIN Sankey.nodes :
               Sankey.nodes[i] = Str(S_OtherCountries) => i = Len(Sankey.nodes)

\* the box plot drawn in "#boxplot"
BoxplotDrawn ==
    /\ "#boxplot" \in DOMAIN containers
    /\ containers["#boxplot"] # Empty
    /\ containers["#boxplot"][1].kind = "svg"
    /\ containers["#boxplot"][1].by = "drawBoxplot"

\* C30: for every conflict type with a positive value, the statistics of
\* the box plot are ordered low <= q1 <= med <= q3 <= high
C30_BoxStatsOrdered ==
    BoxplotDrawn =>
        \A i \in DOMAIN containers["#boxplot"][1].marks :
            LET b == containers["#boxplot"][1].marks[i]
            IN  b.n > 0 => (b.low <= b.q1 /\ b.q1 <= b.med /\ b.med <= b.q3 /\ b.q3 <= b.high)

\* the waffle has a square of the type
HasSquares(k) == squaresOf(k) > 0

\* C28: drawWaffle of the main bundle draws no square for a type whose
\* count in the World record is zero, and the squares of a type differ from
\* 100 times the type's share by less than 1
C28_MainWaffleSquaresMatchShares ==
    (bundle = "main" /\ WaffleDrawn) =>
        \E sum \in {OrOne(sumOfTypes(World))} :
            \A k \in TypeKeys :
                /\ World[k] = 0 => ~HasSquares(k)
                /\ sum * (squaresOf(k) - 1) < 100 * World[k]
                /\ 100 * World[k] < sum * (squaresOf(k) + 1)

\* floor(100 * share) of a type of the World record
floorOf(k) == floorQuotient(100 * World[k], sumOfTypes(World))
\* the fractional part of 100 * share, as a number of total-ths
fractionOf(k) == fraction(World[k], sumOfTypes(World))

====
